---- MODULE Spec2Model ----
(***************************************************************************)
(* Model of the unused-interface-methods analyzer                          *)
(* (internal/analizer/analizer.go): collectInterfaceMethods builds the     *)
(* registry, methodAnalyzer.analyze runs the variable-declaration pre-pass *)
(* and the selector / call traversal, reportUnusedMethods sorts and emits  *)
(* the diagnostics.                                                        *)
(*                                                                         *)
(* The analyzed package is a small Go package: its type declarations are   *)
(* fixed below (the tables a type checker would hand to the analyzer), its *)
(* function bodies (var declarations, selector expressions, calls) are an  *)
(* input that unfolds while the passes visit it, and the ignore            *)
(* configuration is any set of its files.                                  *)
(***************************************************************************)
EXTENDS Integers, Sequences, FiniteSets, TLC

\* Size of a package body: var declarations plus selector / call nodes.
MaxProgram == 3

\* Number of files of the package handed to run() of main.go.
MaxPassFiles == 3

\* Number of elements (directories and file name) of a path handed to
\* ShouldIgnore.
MaxDepth == 3

----------------------------------------------------------------------------
(* The package under analysis: files, declarations, types.                 *)

\* pass.Files, in order.  A file index also stands for the file's path:
\* 1 is "a.go", 2 is "b.go", and paths compare as their indexes do.
Files == {1, 2}

\* The files of a second package: 3 is "generics.go", 4 is "samename.go",
\* 5 is "assert.go", 6 is "stringers.go", 7 is "chain.go".
MoreFiles == {3, 4, 5, 6, 7}

NoIdent == "-"

Sig(ps, rs) == [params |-> ps, results |-> rs]

SigWrite == Sig(<<"[]byte">>, <<"int", "error">>)
SigErr == Sig(<<>>, <<"error">>)
SigProcess == Sig(<<"string">>, <<"error">>)
SigVoid == Sig(<<>>, <<>>)
SigString == Sig(<<>>, <<"string">>)
SigGetUser == Sig(<<"string">>, <<"User", "error">>)
SigDelete == Sig(<<"string">>, <<"error">>)

Fn(n, s, f, l, c) == [name |-> n, sig |-> s, file |-> f, line |-> l, col |-> c]

\* The *types.Func objects of the package: methods of interfaces and of
\* concrete types.  Pair declares X and Y on one source line.
Func ==
  [ WriterWrite |-> Fn("Write", SigWrite, 1, 2, 2),
    WriterClose |-> Fn("Close", SigErr, 1, 3, 2),
    ProcProcess |-> Fn("Process", SigProcess, 2, 2, 2),
    HandlerProcess |-> Fn("Process", SigProcess, 2, 5, 2),
    AAm |-> Fn("Am", SigVoid, 2, 8, 2),
    BBm |-> Fn("Bm", SigVoid, 2, 12, 2),
    StringerString |-> Fn("String", SigString, 2, 15, 2),
    LabelString |-> Fn("String", SigString, 2, 19, 2),
    PairX |-> Fn("X", SigVoid, 2, 17, 23),
    PairY |-> Fn("Y", SigVoid, 2, 17, 28),
    AnonProcess |-> Fn("Process", SigProcess, 2, 40, 20),
    ImplProcess |-> Fn("Process", SigProcess, 2, 24, 1),
    ImplAm |-> Fn("Am", SigVoid, 2, 25, 1),
    ImplString |-> Fn("String", SigString, 2, 26, 1),
    PImplWrite |-> Fn("Write", SigWrite, 2, 29, 1),
    PImplClose |-> Fn("Close", SigErr, 2, 30, 1),
    \* generics.go: a type parameter is a type of its own, so the T of one
    \* interface is not the T of another
    SimpleRepoGet |-> Fn("Get", Sig(<<"string">>, <<"SimpleRepo.T">>), 3, 9, 2),
    CacheGet |-> Fn("Get", Sig(<<"Cache.K">>, <<"Cache.V", "bool">>), 3, 26, 2),
    GenericRepositoryGet |-> Fn("Get", Sig(<<"string">>, <<"GenericRepository.T", "error">>), 3, 56, 2),
    GenericRepositoryDelete |-> Fn("Delete", SigDelete, 3, 58, 2),
    RepositoryGet |-> Fn("Get", Sig(<<"string">>, <<"Repository.T", "error">>), 3, 64, 2),
    GetterGet |-> Fn("Get", SigGetUser, 3, 72, 2),
    \* the methods of the instantiation GenericRepository[User]
    GenericRepositoryUserGet |-> Fn("Get", SigGetUser, 3, 56, 2),
    GenericRepositoryUserDelete |-> Fn("Delete", SigDelete, 3, 58, 2),
    \* the methods of the instantiation MemRepo[User] of a generic struct
    MemRepoUserGet |-> Fn("Get", SigGetUser, 3, 80, 1),
    MemRepoUserDelete |-> Fn("Delete", SigDelete, 3, 81, 1),
    \* samename.go
    ProcessorV1Process |-> Fn("Process", SigProcess, 4, 3, 2),
    ProcessorV2Process |-> Fn("Process", Sig(<<"string", "map[string]interface{}">>, <<"error">>), 4, 6, 2),
    AnyProcessorProcess |-> Fn("Process", Sig(<<"interface{}">>, <<"error">>), 4, 9, 2),
    AnyHandlerProcess |-> Fn("Process", Sig(<<"interface{}", "interface{}">>, <<"error">>), 4, 12, 2),
    \* assert.go
    ioReaderRead |-> Fn("Read", SigWrite, 0, 0, 0),
    ioCloserClose |-> Fn("Close", SigErr, 0, 0, 0),
    \* the methods of os.File
    osFileWrite |-> Fn("Write", SigWrite, 0, 0, 0),
    osFileClose |-> Fn("Close", SigErr, 0, 0, 0),
    ReaderCustomRead |-> Fn("CustomRead", SigErr, 5, 5, 2),
    AnonCustomRead |-> Fn("CustomRead", SigErr, 5, 8, 30),
    ReflectableReflection |-> Fn("Reflection", SigErr, 5, 14, 2),
    ValueMethodByName |-> Fn("MethodByName", Sig(<<"string">>, <<"reflect.Value">>), 0, 0, 0),
    \* stringers.go
    NamedStringerString |-> Fn("String", SigString, 6, 3, 2),
    NamedStringerToString |-> Fn("ToString", SigString, 6, 4, 2),
    CustomStringerString |-> Fn("String", Sig(<<"string">>, <<"string">>), 6, 7, 2),
    DocString |-> Fn("String", SigString, 6, 10, 1),
    DocToString |-> Fn("ToString", SigString, 6, 11, 1),
    FmtrString |-> Fn("String", Sig(<<"string">>, <<"string">>), 6, 13, 1),
    \* chain.go
    FirstFirstMethod |-> Fn("FirstMethod", SigVoid, 7, 3, 2),
    SecondSecondMethod |-> Fn("SecondMethod", SigVoid, 7, 7, 2),
    ThirdThirdMethod |-> Fn("ThirdMethod", SigVoid, 7, 11, 2) ]

Funcs == DOMAIN Func

\* Interface types: explicit methods (ExplicitMethod(i)) and embedded
\* interfaces.  AnonProc is the literal interface{ Process(string) error }.
Iface ==
  [ Writer |-> [explicit |-> <<"WriterWrite", "WriterClose">>, embeds |-> {}],
    Proc |-> [explicit |-> <<"ProcProcess">>, embeds |-> {}],
    Handler |-> [explicit |-> <<"HandlerProcess">>, embeds |-> {}],
    A |-> [explicit |-> <<"AAm">>, embeds |-> {}],
    B |-> [explicit |-> <<"BBm">>, embeds |-> {"A"}],
    Stringer |-> [explicit |-> <<"StringerString">>, embeds |-> {}],
    Label |-> [explicit |-> <<"LabelString">>, embeds |-> {}],
    Pair |-> [explicit |-> <<"PairX", "PairY">>, embeds |-> {}],
    Empty |-> [explicit |-> <<>>, embeds |-> {}],
    AnonProc |-> [explicit |-> <<"AnonProcess">>, embeds |-> {}],
    SimpleRepo |-> [explicit |-> <<"SimpleRepoGet">>, embeds |-> {}],
    Cache |-> [explicit |-> <<"CacheGet">>, embeds |-> {}],
    GenericRepository |-> [explicit |-> <<"GenericRepositoryGet", "GenericRepositoryDelete">>,
                           embeds |-> {}],
    Repository |-> [explicit |-> <<"RepositoryGet">>, embeds |-> {}],
    Getter |-> [explicit |-> <<"GetterGet">>, embeds |-> {}],
    ProcessorV1 |-> [explicit |-> <<"ProcessorV1Process">>, embeds |-> {}],
    ProcessorV2 |-> [explicit |-> <<"ProcessorV2Process">>, embeds |-> {}],
    AnyProcessor |-> [explicit |-> <<"AnyProcessorProcess">>, embeds |-> {}],
    AnyHandler |-> [explicit |-> <<"AnyHandlerProcess">>, embeds |-> {}],
    ioReader |-> [explicit |-> <<"ioReaderRead">>, embeds |-> {}],
    ioCloser |-> [explicit |-> <<"ioCloserClose">>, embeds |-> {}],
    Reader |-> [explicit |-> <<"ReaderCustomRead">>, embeds |-> {"ioReader"}],
    AnonCustomReader |-> [explicit |-> <<"AnonCustomRead">>, embeds |-> {}],
    Reflectable |-> [explicit |-> <<"ReflectableReflection">>, embeds |-> {}],
    NamedStringer |-> [explicit |-> <<"NamedStringerString", "NamedStringerToString">>,
                       embeds |-> {}],
    CustomStringer |-> [explicit |-> <<"CustomStringerString">>, embeds |-> {}],
    First |-> [explicit |-> <<"FirstFirstMethod">>, embeds |-> {}],
    Second |-> [explicit |-> <<"SecondSecondMethod">>, embeds |-> {"First"}],
    Third |-> [explicit |-> <<"ThirdThirdMethod">>, embeds |-> {"Second"}] ]

Ifaces == DOMAIN Iface

\* named.TypeParams().Len() > 0: the generic named types
TypeParams == {"SimpleRepo", "Cache", "GenericRepository", "Repository", "MemRepo"}

\* The method objects of an instantiated generic interface: the
\* instantiation has methods of its own, with the type arguments substituted.
InstMethods ==
  [ GenericRepository |-> {"GenericRepositoryUserGet", "GenericRepositoryUserDelete"} ]

\* Concrete named types: methods with value receivers and with pointer
\* receivers.
Concrete ==
  [ Impl |-> [value |-> {"ImplProcess", "ImplAm", "ImplString"}, pointer |-> {}],
    PImpl |-> [value |-> {}, pointer |-> {"PImplWrite", "PImplClose"}],
    MemRepo |-> [value |-> {"MemRepoUserGet", "MemRepoUserDelete"}, pointer |-> {}],
    reflectValue |-> [value |-> {"ValueMethodByName"}, pointer |-> {}],
    osFile |-> [value |-> {}, pointer |-> {"osFileWrite", "osFileClose"}],
    Doc |-> [value |-> {"DocString", "DocToString"}, pointer |-> {}],
    Fmtr |-> [value |-> {"FmtrString"}, pointer |-> {}] ]

Concretes == DOMAIN Concrete

\* file.Decls: the top-level declarations of each file.
Decl(tok, name, ifaceType) == [tok |-> tok, name |-> name, ifaceType |-> ifaceType]

FileDecls ==
  [ f \in Files |->
      IF f = 1
        THEN << Decl("TYPE", "Writer", TRUE) >>
        ELSE << Decl("TYPE", "Proc", TRUE), Decl("TYPE", "Handler", TRUE),
                Decl("TYPE", "A", TRUE), Decl("TYPE", "B", TRUE),
                Decl("TYPE", "Stringer", TRUE), Decl("TYPE", "Pair", TRUE),
                Decl("TYPE", "Label", TRUE),
                Decl("TYPE", "Empty", TRUE), Decl("TYPE", "Impl", FALSE),
                Decl("TYPE", "PImpl", FALSE), Decl("FUNC", "test", FALSE) >> ]

\* The declarations of the files of the second package.
MoreFileDecls ==
  [ f \in MoreFiles |->
      CASE f = 3 -> << Decl("TYPE", "SimpleRepo", TRUE), Decl("TYPE", "Cache", TRUE),
                       Decl("TYPE", "GenericRepository", TRUE),
                       Decl("TYPE", "Repository", TRUE), Decl("TYPE", "Getter", TRUE),
                       Decl("TYPE", "MemRepo", FALSE), Decl("FUNC", "GetUser", FALSE) >>
        [] f = 4 -> << Decl("TYPE", "ProcessorV1", TRUE), Decl("TYPE", "ProcessorV2", TRUE),
                       Decl("TYPE", "AnyProcessor", TRUE), Decl("TYPE", "AnyHandler", TRUE),
                       Decl("FUNC", "test", FALSE) >>
        [] f = 5 -> << Decl("IMPORT", "io", FALSE), Decl("TYPE", "Reader", TRUE),
                       Decl("FUNC", "test", FALSE), Decl("TYPE", "Reflectable", TRUE) >>
        [] f = 6 -> << Decl("TYPE", "NamedStringer", TRUE),
                       Decl("TYPE", "CustomStringer", TRUE), Decl("TYPE", "Doc", FALSE),
                       Decl("TYPE", "Fmtr", FALSE) >>
        [] f = 7 -> << Decl("TYPE", "First", TRUE), Decl("TYPE", "Second", TRUE),
                       Decl("TYPE", "Third", TRUE), Decl("FUNC", "test", FALSE) >> ]

\* file.Decls
DeclsOf(f) == IF f \in Files THEN FileDecls[f] ELSE MoreFileDecls[f]

\* types.Type values: a named type, a pointer to a named type, an interface
\* literal, an instantiation of a generic named type (named.Origin() # named).
Named(n) == [k |-> "named", n |-> n]
Pointer(n) == [k |-> "ptr", n |-> n]
Literal(n) == [k |-> "iface", n |-> n]
Inst(n) == [k |-> "inst", n |-> n]

Range(s) == {s[i] : i \in 1..Len(s)}

\* t.Underlying().(*types.Interface)
IsInterfaceType(t) ==
  \/ t.k = "iface"
  \/ t.k = "named" /\ t.n \in Ifaces
  \/ t.k = "inst" /\ t.n \in Ifaces

\* The complete method set of an interface: explicit methods and those of
\* the embedded interfaces (the same *types.Func objects).
RECURSIVE AllMethods(_)
AllMethods(i) ==
  Range(Iface[i].explicit) \cup UNION {AllMethods(e) : e \in Iface[i].embeds}

NameSig(m) == <<Func[m].name, Func[m].sig>>

\* The methods in the method set of a type.
TypeMethods(t) ==
  IF IsInterfaceType(t) THEN (IF t.k = "inst" THEN InstMethods[t.n] ELSE AllMethods(t.n))
  ELSE IF t.k \in {"named", "inst"} THEN Concrete[t.n].value
  ELSE Concrete[t.n].value \cup Concrete[t.n].pointer

\* types.Implements(t, iface)
Implements(t, i) ==
  {NameSig(m) : m \in AllMethods(i)} \subseteq {NameSig(m) : m \in TypeMethods(t)}

\* types.Identical(t, iface) for an interface type iface: a named type is
\* never identical to an interface literal; two interface types are
\* identical when their method sets are.
IdenticalToIface(t, i) ==
  /\ t.k = "iface"
  /\ {NameSig(m) : m \in AllMethods(t.n)} = {NameSig(m) : m \in AllMethods(i)}

\* types.Identical on two signatures
IdenticalSig(m1, m2) == Func[m1].sig = Func[m2].sig

NilType == [k |-> "nil", n |-> ""]

\* getTypeName: the name of a named type, "" otherwise
getTypeName(t) == IF t.k = "named" THEN t.n ELSE ""

\* cfg.ShouldIgnore(relPath) is a predicate on the file; the configured
\* patterns select a set of the package's files.
ShouldIgnoreFile(ignore, f) == f \in ignore

----------------------------------------------------------------------------
(* The package body: var declarations, selector expressions, calls.        *)

\* A declaration node met by collectVarAssignments' filter.
VarSpec(tok, lhs, lhsType, rhs, rhsType) ==
  [tok |-> tok, names |-> 1, values |-> 1, lhs |-> lhs, lhsType |-> lhsType,
   rhs |-> rhs, rhsType |-> rhsType]

VarDecls ==
  { VarSpec("VAR", "a", Named("Proc"), "ident", Named("Impl")),     \* var a Proc = impl
    VarSpec("VAR", "b", Named("Handler"), "ident", Named("Proc")),  \* var b Handler = a
    VarSpec("VAR", "b", Named("Handler"), "ident", Named("Impl")),  \* var b Handler = t
    VarSpec("VAR", "a", Named("Proc"), "addr", Pointer("Impl")),    \* var a Proc = &Impl{}
    VarSpec("VAR", "n", Named("Impl"), "ident", Named("Impl")),     \* var n Impl = t
    VarSpec("VAR", "h", Named("Handler"), "call", Named("Handler")),\* var h Handler = mk()
    VarSpec("TYPE", NoIdent, NilType, "none", NilType) }            \* a type declaration

\* A selector expression: its file, the identifier node.X (NoIdent when X is
\* not an identifier), the kind of its TypesInfo.Selections entry ("none"
\* when there is no entry, as for a package-qualified name), the receiver
\* type and the selected name.
Sel(f, x, kind, recv, name) ==
  [node |-> "SelectorExpr", file |-> f, x |-> x, selKind |-> kind, recv |-> recv,
   name |-> name, fun |-> "", pkg |-> "", args |-> <<>>]

\* A call expression: its file, the shape of node.Fun, the package of the
\* called function ("" when the callee is no function object) and the static
\* types of the arguments.
Call(f, fun, pkg, args) ==
  [node |-> "CallExpr", file |-> f, x |-> NoIdent, selKind |-> "none", recv |-> NilType,
   name |-> "", fun |-> fun, pkg |-> pkg, args |-> args]

Selectors ==
  { Sel(1, "w", "MethodVal", Named("Writer"), "Write"),
    Sel(2, "w", "MethodVal", Named("Writer"), "Write"),
    Sel(1, "w", "MethodVal", Named("Writer"), "Close"),
    Sel(2, "a", "MethodVal", Named("Proc"), "Process"),
    Sel(2, "b", "MethodVal", Named("Handler"), "Process"),
    Sel(2, NoIdent, "MethodVal", Literal("AnonProc"), "Process"),
    Sel(2, "t", "MethodVal", Named("Impl"), "Process"),
    Sel(2, "t", "MethodVal", Named("Impl"), "Am"),
    Sel(2, "t", "MethodVal", Named("Impl"), "String"),
    Sel(2, "d", "MethodVal", Named("B"), "Am"),
    Sel(2, "d", "MethodVal", Named("B"), "Bm"),
    Sel(2, "pp", "MethodVal", Pointer("PImpl"), "Write"),
    Sel(2, "pv", "MethodVal", Named("PImpl"), "Write"),
    Sel(2, "s", "MethodVal", Named("Stringer"), "String"),
    Sel(2, "Pair", "MethodExpr", Named("Pair"), "X"),
    Sel(2, "t", "FieldVal", Named("Impl"), "field"),
    Sel(2, "fmt", "none", NilType, "Println") }

Calls ==
  { Call(1, "selector", "fmt", <<Named("Impl")>>),
    Call(2, "selector", "fmt", <<Named("PImpl"), Named("Stringer")>>),
    Call(2, "ident", "test", <<Named("Impl")>>),
    Call(2, "other", "", <<Named("Impl")>>) }

\* Function bodies of the first package that bind variables: var
\* declarations of interface-typed variables in several scopes, two of them
\* without type information (no object for the declared name, no object for
\* the identifier on the right).
BindDecls ==
  { VarSpec("VAR", "c", Named("ioCloser"), "addr", Pointer("PImpl")), \* var c io.Closer = &PImpl{}
    VarSpec("VAR", "c", Named("ioCloser"), "addr", Pointer("Impl")),  \* var c io.Closer = &Impl{}
    VarSpec("VAR", "f", Named("ioCloser"), "addr", Pointer("osFile")),\* var f io.Closer = &os.File{}
    VarSpec("VAR", "b", Named("Handler"), "ident", Named("Proc")),    \* var b Handler = a
    VarSpec("VAR", "b", Named("Handler"), "ident", Named("Handler")), \* var b Handler = h
    VarSpec("VAR", "g", NilType, "addr", Pointer("PImpl")),           \* Defs[g] == nil
    VarSpec("VAR", "c", Named("ioCloser"), "ident", NilType) }        \* Uses[y] == nil

\* The selector expressions of those bodies; the last has no entry in
\* TypesInfo.Selections.
BindSelectors ==
  { Sel(2, "c", "MethodVal", Named("ioCloser"), "Close"),
    Sel(1, "c", "MethodVal", Named("ioCloser"), "Close"),
    Sel(2, "f", "MethodVal", Named("ioCloser"), "Close"),
    Sel(2, "b", "MethodVal", Named("Handler"), "Process"),
    Sel(2, "c", "none", NilType, "Close") }

\* The call expressions of those bodies: fmt.Println(u, impl) and
\* fmt.Println(u), where TypeOf(u) == nil.
BindCalls ==
  { Call(2, "selector", "fmt", <<NilType, Named("Impl")>>),
    Call(2, "selector", "fmt", <<NilType>>) }

\* The selector expressions of the second package.
MoreSelectors ==
  { Sel(3, "repo", "MethodVal", Inst("GenericRepository"), "Get"),
    Sel(3, "repo", "MethodVal", Inst("GenericRepository"), "Delete"),
    Sel(3, "mem", "MethodVal", Inst("MemRepo"), "Get"),
    Sel(3, "g", "MethodVal", Named("Getter"), "Get"),
    Sel(4, "p1", "MethodVal", Named("ProcessorV1"), "Process"),
    Sel(4, "p3", "MethodVal", Named("AnyProcessor"), "Process"),
    Sel(5, "cr", "MethodVal", Literal("AnonCustomReader"), "CustomRead"),
    Sel(5, "v", "MethodVal", Named("reflectValue"), "MethodByName"),
    Sel(6, "d", "MethodVal", Named("Doc"), "ToString"),
    Sel(6, "d", "MethodVal", Named("Doc"), "String"),
    Sel(6, "f", "MethodVal", Named("Fmtr"), "String"),
    Sel(7, "t", "MethodVal", Named("Third"), "FirstMethod"),
    Sel(7, "t", "MethodVal", Named("Third"), "ThirdMethod") }

\* The call expressions of the second package: fmt.Println(doc),
\* fmt.Println(fmtr), reflect.ValueOf(x).
MoreCalls ==
  { Call(6, "selector", "fmt", <<Named("Doc")>>),
    Call(6, "selector", "fmt", <<Named("Fmtr")>>),
    Call(5, "selector", "reflect", <<Named("Reflectable")>>) }

\* The methods a selector can select on a receiver (an addressable value
\* also reaches the pointer-receiver methods).
Selectable(t) ==
  IF IsInterfaceType(t) THEN TypeMethods(t)
  ELSE Concrete[t.n].value \cup Concrete[t.n].pointer

\* sel.Obj().(*types.Func)
CalledMethod(n) == CHOOSE m \in Selectable(n.recv) : Func[m].name = n.name

----------------------------------------------------------------------------
(* The analyzer's state.                                                   *)

VARIABLES
  cfg,             \* the files cfg.ShouldIgnore accepts
  pc,              \* the phase of run(): collect, analyze, bind, walk, report, done
  fileIdx,         \* collectInterfaceMethods: the next file of pass.Files
  ifaceMethods,    \* the registry, map[*types.Func]methodInfo
  usedMethods,     \* methodAnalyzer.usedMethods, map[*types.Func]bool
  varAssignments,  \* methodAnalyzer.varAssignments, map[string]string
  concreteTypes,   \* methodAnalyzer.concreteTypes, map[string][]string
  diagnostics,     \* what pass.Reportf received, in order
  decls,           \* the package body: the declarations the pre-pass meets, in order
  nodes,           \* the package body: its selector and call nodes
  declPos,         \* the pre-pass's position in decls
  walked,          \* the nodes the traversal has visited in this run
  runNo,           \* 1 in the first run over the package, 2 in the second
  firstRun,        \* the diagnostics of the first run, once a second run started
  passFiles,       \* pass.Files: the files of the package under analysis, in order
  skipGenerics,    \* the flag -skipGenerics of main.go
  goos,            \* runtime.GOOS of the build
  ignoreList,      \* Config.Ignore
  filePath,        \* ShouldIgnore: the argument filePath
  patIdx,          \* ShouldIgnore: the position of the loop over c.Ignore
  ignored,         \* ShouldIgnore: the value returned
  workers,         \* parallel collector: the goroutines started, in order
  wg,              \* parallel collector: the counter of the sync.WaitGroup
  syncMap,         \* parallel collector: the shared sync.Map
  storedBy,        \* for each key of the sync.Map, the workers that stored it
  methodIndex,     \* methodAnalyzer.methodIndex, map[string][]*types.Func
  usedScan         \* the used set of the analyzer that scans the whole registry

\* The state of one call of Config.ShouldIgnore.
call == <<goos, ignoreList, filePath, patIdx, ignored>>

\* The state of the parallel collector.
par == <<workers, wg, syncMap, storedBy>>

\* The state the analyzer with the name index adds.
idx == <<methodIndex, usedScan>>

\* The inputs the passes of internal/analizer read and never write.
ext == <<passFiles, skipGenerics, call, par, idx>>

vars == <<cfg, pc, fileIdx, ifaceMethods, usedMethods, varAssignments, concreteTypes,
          diagnostics, decls, nodes, declPos, walked, runNo, firstRun, ext>>

EmptyMap == [x \in {} |-> TRUE]

\* m[k] = v on a Go map
Put(m, k, v) == [x \in DOMAIN m \cup {k} |-> IF x = k THEN v ELSE m[x]]

\* m[k] on a map[...]bool: false for a missing key
IsTrue(m, k) == k \in DOMAIN m /\ m[k]

\* A store that forgets the earlier keys.
MarkOnly(m, ks) == [x \in ks |-> TRUE]

\* m[k] = true for every k of ks
MarkAll(m, ks) == [x \in DOMAIN m \cup ks |-> IF x \in ks THEN TRUE ELSE m[x]]

ProgramSize == Len(decls) + Cardinality(nodes)

----------------------------------------------------------------------------
(* The config package: defaultConfig, matchPattern, ShouldIgnore.          *)
(* A string is the sequence of its tokens: a separator, a wildcard, or a   *)
(* run of other characters.                                                *)

\* defaultConfig().Ignore
defaultIgnore ==
  << <<"**", "/", "*", "_test.go">>,
     <<"test", "/", "**">>,
     <<"**", "/", "*", "_mock.go">>,
     <<"**", "/", "mock", "/", "**">>,
     <<"**", "/", "mocks", "/", "**">> >>

\* filepath.Separator
Separator(os) == IF os = "windows" THEN "\\" ELSE "/"

\* os.IsPathSeparator
IsPathSeparator(os, c) == c = "/" \/ (os = "windows" /\ c = "\\")

\* The elements of a string between the separators seps.
RECURSIVE Split(_, _, _, _)
Split(str, i, cur, seps) ==
  IF i > Len(str) THEN <<cur>>
  ELSE IF str[i] \in seps THEN <<cur>> \o Split(str, i + 1, <<>>, seps)
  ELSE Split(str, i + 1, Append(cur, str[i]), seps)

RECURSIVE Join(_, _)
Join(elems, sep) ==
  IF Len(elems) = 0 THEN <<>>
  ELSE IF Len(elems) = 1 THEN elems[1]
  ELSE elems[1] \o <<sep>> \o Join(Tail(elems), sep)

\* filepath.Clean drops empty elements and "." elements
KeepElement(e) == e # <<>> /\ e # <<".">>

\* filepath.Clean on a relative path without "..": the elements that are
\* neither empty nor ".", joined by the separator of the operating system;
\* "." when none is left.
Clean(os, path) ==
  LET elems == SelectSeq(Split(path, 1, <<>>, {c \in {"/", "\\"} : IsPathSeparator(os, c)}),
                         KeepElement)
  IN IF elems = <<>> THEN <<".">> ELSE Join(elems, Separator(os))

\* One path element against one pattern element: "*" matches any run of
\* characters that holds no "/".
RECURSIVE GlobMatch(_, _, _, _)
GlobMatch(p, i, n, j) ==
  IF i > Len(p) THEN j > Len(n)
  ELSE IF p[i] = "*" THEN GlobMatch(p, i + 1, n, j) \/ (j <= Len(n) /\ GlobMatch(p, i, n, j + 1))
  ELSE j <= Len(n) /\ p[i] = n[j] /\ GlobMatch(p, i + 1, n, j + 1)

\* The elements of a pattern against the elements of a name: "**" matches
\* zero or more elements.
RECURSIVE ElementsMatch(_, _, _, _)
ElementsMatch(p, i, n, j) ==
  IF i > Len(p) THEN j > Len(n)
  ELSE IF p[i] = <<"**">> THEN ElementsMatch(p, i + 1, n, j)
                               \/ (j <= Len(n) /\ ElementsMatch(p, i, n, j + 1))
  ELSE j <= Len(n) /\ GlobMatch(p[i], 1, n[j], 1) /\ ElementsMatch(p, i + 1, n, j + 1)

\* doublestar.Match(pattern, name): both are split on "/", whatever the
\* operating system.
doublestarMatch(pattern, name) ==
  ElementsMatch(Split(pattern, 1, <<>>, {"/"}), 1, Split(name, 1, <<>>, {"/"}), 1)

\* Config.matchPattern
matchPattern(os, pattern, path) == doublestarMatch(pattern, Clean(os, path))

\* Config.ShouldIgnore: one iteration of the loop over c.Ignore, or the
\* return after it.
ShouldIgnore ==
  /\ pc = "ignore"
  /\ IF patIdx > Len(ignoreList) THEN ignored' = FALSE /\ pc' = "returned" /\ patIdx' = patIdx
     ELSE IF matchPattern(goos, ignoreList[patIdx], Clean(goos, filePath))
       THEN ignored' = TRUE /\ pc' = "returned" /\ patIdx' = patIdx
       ELSE ignored' = ignored /\ pc' = pc /\ patIdx' = patIdx + 1
  /\ UNCHANGED <<cfg, fileIdx, ifaceMethods, usedMethods, varAssignments, concreteTypes,
                 diagnostics, decls, nodes, declPos, walked, runNo, firstRun, passFiles,
                 skipGenerics, goos, ignoreList, filePath, par, idx>>

\* No goroutine was started, no index built.
NoWorkers ==
  /\ workers = <<>>
  /\ wg = 0
  /\ syncMap = [x \in {} |-> TRUE]
  /\ storedBy = [x \in {} |-> TRUE]
  /\ methodIndex = [x \in {} |-> TRUE]
  /\ usedScan = [x \in {} |-> TRUE]

\* No call of ShouldIgnore is under way.
NoCall ==
  /\ goos = "linux"
  /\ ignoreList = defaultIgnore
  /\ filePath = <<>>
  /\ patIdx = 1
  /\ ignored = FALSE

----------------------------------------------------------------------------
(* collectInterfaceMethods                                                 *)

MethodInfo(name, i, m) == [ifaceName |-> name, iface |-> i, method |-> m, used |-> FALSE]

\* A collector that enumerates Method(i), i < NumMethods().
ExplicitMethodsOrEmbedded(i) == AllMethods(i)

\* The methods ifaceType.ExplicitMethod(i) enumerates, i < NumExplicitMethods().
ExplicitMethods(i) == Range(Iface[i].explicit)

\* The body of the loop over gd.Specs for one declaration.
RegisterDecl(d, reg) ==
  IF d.tok # "TYPE" \/ ~d.ifaceType \/ d.name \notin Ifaces
    THEN reg
    ELSE [m \in DOMAIN reg \cup ExplicitMethods(d.name) |->
            IF m \in ExplicitMethods(d.name) THEN MethodInfo(d.name, d.name, m) ELSE reg[m]]

RECURSIVE RegisterDecls(_, _, _)
RegisterDecls(ds, i, reg) ==
  IF i > Len(ds) THEN reg ELSE RegisterDecls(ds, i + 1, RegisterDecl(ds[i], reg))

\* Files the collector skips.
SkipsFile(f) == ShouldIgnoreFile(cfg, f)

\* One iteration of the loop over pass.Files.
CollectFile ==
  /\ pc = "collect"
  /\ ifaceMethods' = IF SkipsFile(fileIdx) THEN ifaceMethods
                     ELSE RegisterDecls(FileDecls[fileIdx], 1, ifaceMethods)
  /\ fileIdx' = fileIdx + 1
  /\ pc' = IF fileIdx + 1 \in Files THEN "collect" ELSE "analyze"
  /\ UNCHANGED <<cfg, usedMethods, varAssignments, concreteTypes, diagnostics, decls,
                 nodes, declPos, walked, runNo, firstRun, ext>>

----------------------------------------------------------------------------
(* main.go, run(), step A: the collector with the -skipGenerics flag       *)

\* A collector that never looks at the flag.
SkipsGenericNever(skip, name) == FALSE

\* skipGenerics && named.TypeParams() != nil && named.TypeParams().Len() > 0
SkipsGeneric(skip, name) == skip /\ name \in TypeParams

\* The body of the loop over gd.Specs for one declaration.
RunRegisterDecl(d, reg, skip) ==
  IF d.tok # "TYPE" \/ ~d.ifaceType \/ d.name \notin Ifaces THEN reg
  ELSE IF SkipsGeneric(skip, d.name) THEN reg
  ELSE [m \in DOMAIN reg \cup Range(Iface[d.name].explicit) |->
          IF m \in Range(Iface[d.name].explicit) THEN MethodInfo(d.name, d.name, m)
          ELSE reg[m]]

\* The loop over file.Decls.
RECURSIVE RunRegisterDecls(_, _, _, _)
RunRegisterDecls(ds, i, reg, skip) ==
  IF i > Len(ds) THEN reg
  ELSE RunRegisterDecls(ds, i + 1, RunRegisterDecl(ds[i], reg, skip), skip)

\* The loop over pass.Files, from file i on.
RECURSIVE RunCollect(_, _, _, _)
RunCollect(files, i, reg, skip) ==
  IF i > Len(files) THEN reg
  ELSE RunCollect(files, i + 1, RunRegisterDecls(DeclsOf(files[i]), 1, reg, skip), skip)

\* One iteration of the loop over pass.Files, or its end.
RunCollectFile ==
  /\ pc = "collect"
  /\ IF fileIdx > Len(passFiles)
       THEN pc' = "analyze" /\ UNCHANGED <<ifaceMethods, fileIdx>>
       ELSE /\ ifaceMethods' = RunRegisterDecls(DeclsOf(passFiles[fileIdx]), 1,
                                                ifaceMethods, skipGenerics)
            /\ fileIdx' = fileIdx + 1
            /\ pc' = "collect"
  /\ UNCHANGED <<cfg, usedMethods, varAssignments, concreteTypes, diagnostics, decls,
                 nodes, declPos, walked, runNo, firstRun, ext>>

\* analyzeUsedMethods: newMethodAnalyzer, then analyze() starts its pre-pass.
NewMethodAnalyzer ==
  /\ pc = "analyze"
  /\ usedMethods' = EmptyMap
  /\ varAssignments' = EmptyMap
  /\ concreteTypes' = EmptyMap
  /\ pc' = "bind"
  /\ UNCHANGED <<cfg, fileIdx, ifaceMethods, diagnostics, decls, nodes, declPos, walked,
                 runNo, firstRun, ext>>

----------------------------------------------------------------------------
(* collectVarAssignments                                                   *)

\* A pre-pass that keeps one concrete type per name, the last.
BindVarLastConcrete(d, va, ct) ==
  IF d.tok # "VAR" \/ d.values # 1 \/ d.names # 1 THEN [va |-> va, ct |-> ct]
  ELSE IF d.lhsType = NilType THEN [va |-> va, ct |-> ct]
  ELSE IF ~IsInterfaceType(d.lhsType) THEN [va |-> va, ct |-> ct]
  ELSE IF d.rhs = "ident" THEN
    IF d.rhsType = NilType \/ getTypeName(d.rhsType) = "" THEN [va |-> va, ct |-> ct]
    ELSE [va |-> Put(va, d.lhs, getTypeName(d.rhsType)), ct |-> ct]
  ELSE IF d.rhs = "addr" /\ d.rhsType # NilType /\ d.rhsType.k = "ptr" THEN
    [va |-> va, ct |-> Put(ct, d.lhs, <<d.rhsType.n>>)]
  ELSE [va |-> va, ct |-> ct]

\* The callback of the pre-pass on one declaration: the bindings after it.
\* va is varAssignments, ct is concreteTypes.
BindVar(d, va, ct) ==
  IF d.tok # "VAR" \/ d.values # 1 \/ d.names # 1 THEN [va |-> va, ct |-> ct]
  ELSE IF d.lhsType = NilType THEN [va |-> va, ct |-> ct]
  ELSE IF ~IsInterfaceType(d.lhsType) THEN [va |-> va, ct |-> ct]
  ELSE IF d.rhs = "ident" THEN
    IF d.rhsType = NilType \/ getTypeName(d.rhsType) = "" THEN [va |-> va, ct |-> ct]
    ELSE [va |-> Put(va, d.lhs, getTypeName(d.rhsType)), ct |-> ct]
  ELSE IF d.rhs = "addr" /\ d.rhsType # NilType /\ d.rhsType.k = "ptr" THEN
    [va |-> va,
     ct |-> Put(ct, d.lhs, Append(IF d.lhs \in DOMAIN ct THEN ct[d.lhs] ELSE <<>>, d.rhsType.n))]
  ELSE [va |-> va, ct |-> ct]

\* The pre-pass visits the next declaration of the package body.  In the
\* first run the body unfolds here; a second run meets the same declarations
\* in the same order.
VisitVarDecl ==
  /\ pc = "bind"
  /\ \E d \in VarDecls :
       /\ IF declPos < Len(decls)
            THEN d = decls[declPos + 1] /\ decls' = decls
            ELSE runNo = 1 /\ ProgramSize < MaxProgram /\ decls' = Append(decls, d)
       /\ varAssignments' = BindVar(d, varAssignments, concreteTypes).va
       /\ concreteTypes' = BindVar(d, varAssignments, concreteTypes).ct
  /\ declPos' = declPos + 1
  /\ UNCHANGED <<cfg, pc, fileIdx, ifaceMethods, usedMethods, diagnostics, nodes, walked,
                 runNo, firstRun, ext>>

\* The pre-pass is over; the second pass of analyze() starts.
EndVarDecls ==
  /\ pc = "bind"
  /\ declPos = Len(decls)
  /\ pc' = "walk"
  /\ UNCHANGED <<cfg, fileIdx, ifaceMethods, usedMethods, varAssignments, concreteTypes,
                 diagnostics, decls, nodes, declPos, walked, runNo, firstRun, ext>>

----------------------------------------------------------------------------
(* analyzeSelectorExpr, markMatchingMethods, isMethodMatch                 *)

\* A heuristic that accepts no pair.
genericMethodsMatchNever(instMethod, genericMethod) == FALSE

\* genericMethodsMatch: the heuristic accepts every pair it is asked about
genericMethodsMatch(instMethod, genericMethod) == TRUE

\* A resolver without the direct match.
NeverSameObject(calledMethod, ifaceMethod) == FALSE

\* calledMethod == ifaceMethod
SameObject(calledMethod, ifaceMethod) == calledMethod = ifaceMethod

\* The last two returns of isMethodMatch: how the receiver type relates to
\* the candidate's interface.
\* A resolver that lets an interface receiver match every interface it
\* satisfies.
ReceiverImplements(recv, i) == Implements(recv, i)

\* A resolver that never matches a concrete receiver.
ReceiverNeverConcrete(recv, i) ==
  IF IsInterfaceType(recv) THEN IdenticalToIface(recv, i) ELSE FALSE

ReceiverMatches(recv, i) ==
  IF IsInterfaceType(recv) THEN IdenticalToIface(recv, i) ELSE Implements(recv, i)

\* A resolver that forgets to compare the names.
isMethodMatchAnyName(calledMethod, ifaceMethod, recv, info) ==
  IF SameObject(calledMethod, ifaceMethod) THEN TRUE
  ELSE IF ~IdenticalSig(calledMethod, ifaceMethod) THEN FALSE
  ELSE ReceiverMatches(recv, info.iface)

isMethodMatch(calledMethod, ifaceMethod, recv, info) ==
  IF SameObject(calledMethod, ifaceMethod) THEN TRUE
  ELSE IF Func[calledMethod].name # Func[ifaceMethod].name THEN FALSE
  ELSE IF /\ recv.k = "inst"
          /\ recv.n = info.ifaceName
          /\ genericMethodsMatch(calledMethod, ifaceMethod) THEN TRUE
  ELSE IF ~IdenticalSig(calledMethod, ifaceMethod) THEN FALSE
  ELSE ReceiverMatches(recv, info.iface)

\* markMatchingMethods: the used set after the loop over the registry
markMatchingMethods(reg, used, calledMethod, recv) ==
  MarkAll(used, {m \in DOMAIN reg :
                   ~IsTrue(used, m) /\ isMethodMatch(calledMethod, m, recv, reg[m])})

\* The methods marked because node.X is a variable assigned from another
\* interface-typed variable.
AliasMarks(reg, va, x, calledMethod) ==
  IF x = NoIdent \/ x \notin DOMAIN va THEN {}
  ELSE {m \in DOMAIN reg :
          /\ reg[m].ifaceName = va[x]
          /\ Func[m].name = Func[calledMethod].name
          /\ IdenticalSig(m, calledMethod)}

\* The named concrete types with an entry in pass.TypesInfo.Defs: those
\* declared in the files of the package.
DefinedTypes ==
  {t \in Concretes : \E k \in 1..Len(passFiles) : \E j \in 1..Len(DeclsOf(passFiles[k])) :
     /\ DeclsOf(passFiles[k])[j].tok = "TYPE"
     /\ ~DeclsOf(passFiles[k])[j].ifaceType
     /\ DeclsOf(passFiles[k])[j].name = t}

\* concreteTypeImplementsInterface: some named type of that name defined in
\* the package implements the interface, itself or through its pointer
concreteTypeImplementsInterface(typeName, i) ==
  /\ typeName \in DefinedTypes
  /\ Implements(Named(typeName), i) \/ Implements(Pointer(typeName), i)

\* The methods marked because node.X is a variable that had concrete types
\* assigned.
ConcreteMarks(reg, ct, x, calledMethod) ==
  IF x = NoIdent \/ x \notin DOMAIN ct THEN {}
  ELSE {m \in DOMAIN reg :
          /\ Func[m].name = Func[calledMethod].name
          /\ IdenticalSig(m, calledMethod)
          /\ \E typeName \in Range(ct[x]) : concreteTypeImplementsInterface(typeName, reg[m].iface)}

\* analyzeSelectorExpr: the used set after the node
analyzeSelectorExpr(n, reg, used, va, ct) ==
  IF n.selKind \notin {"MethodVal", "MethodExpr"} THEN used
  ELSE MarkAll(markMatchingMethods(reg, used, CalledMethod(n), n.recv),
               AliasMarks(reg, va, n.x, CalledMethod(n))
                 \cup ConcreteMarks(reg, ct, n.x, CalledMethod(n)))

\* The traversal visits a selector expression of the package body.
VisitSelector ==
  /\ pc = "walk"
  /\ \E n \in Selectors :
       /\ IF walked # nodes
            THEN n \in nodes \ walked /\ nodes' = nodes
            ELSE runNo = 1 /\ n \notin nodes /\ ProgramSize < MaxProgram
                 /\ nodes' = nodes \cup {n}
       /\ walked' = walked \cup {n}
       /\ usedMethods' = analyzeSelectorExpr(n, ifaceMethods, usedMethods,
                                             varAssignments, concreteTypes)
  /\ UNCHANGED <<cfg, pc, fileIdx, ifaceMethods, varAssignments, concreteTypes,
                 diagnostics, decls, declPos, runNo, firstRun, ext>>

----------------------------------------------------------------------------
(* analyzeCallExpr, analyzeFmtCall, checkStringerUsage, isStringerMethod   *)

\* A check that misses the qualified form fmt.F(...).
isFmtFunctionIdentOnly(n) == n.fun = "ident" /\ n.pkg = "fmt"

\* extractFunctionIdent finds an identifier and isFmtFunction accepts it
isFmtFunction(n) == n.fun \in {"ident", "selector"} /\ n.pkg = "fmt"

\* A test of the name alone.
isStringerMethodByName(m) == Func[m].name = "String"

isStringerMethod(m) ==
  /\ Func[m].name = "String"
  /\ Len(Func[m].sig.params) = 0
  /\ Len(Func[m].sig.results) = 1
  /\ Func[m].sig.results[1] = "string"

\* checkStringerUsage: the used set after one argument
checkStringerUsage(reg, used, argType) ==
  MarkAll(used, {m \in DOMAIN reg :
                   /\ ~IsTrue(used, m)
                   /\ isStringerMethod(m)
                   /\ Implements(argType, reg[m].iface)})

\* analyzeFmtCall: the loop over node.Args
RECURSIVE analyzeFmtCall(_, _, _, _)
analyzeFmtCall(args, i, reg, used) ==
  IF i > Len(args) THEN used
  ELSE analyzeFmtCall(args, i + 1, reg,
                      IF args[i] = NilType THEN used
                      ELSE checkStringerUsage(reg, used, args[i]))

\* A handler that gives up the whole call when the type of one argument is
\* missing.
analyzeCallExprAllOrNothing(n, reg, used) ==
  IF ~isFmtFunction(n) \/ \E k \in 1..Len(n.args) : n.args[k] = NilType THEN used
  ELSE analyzeFmtCall(n.args, 1, reg, used)

analyzeCallExpr(n, reg, used) ==
  IF ~isFmtFunction(n) THEN used ELSE analyzeFmtCall(n.args, 1, reg, used)

\* The traversal visits a call expression of the package body.
VisitCall ==
  /\ pc = "walk"
  /\ \E n \in Calls :
       /\ IF walked # nodes
            THEN n \in nodes \ walked /\ nodes' = nodes
            ELSE runNo = 1 /\ n \notin nodes /\ ProgramSize < MaxProgram
                 /\ nodes' = nodes \cup {n}
       /\ walked' = walked \cup {n}
       /\ usedMethods' = analyzeCallExpr(n, ifaceMethods, usedMethods)
  /\ UNCHANGED <<cfg, pc, fileIdx, ifaceMethods, varAssignments, concreteTypes,
                 diagnostics, decls, declPos, runNo, firstRun, ext>>

\* Preorder returns; analyze() returns the used set.
EndWalk ==
  /\ pc = "walk"
  /\ walked = nodes
  /\ pc' = "report"
  /\ UNCHANGED <<cfg, fileIdx, ifaceMethods, usedMethods, varAssignments, concreteTypes,
                 diagnostics, decls, nodes, declPos, walked, runNo, firstRun, ext>>

----------------------------------------------------------------------------
(* The analysis of the second package.                                     *)

\* collectInterfaceMethods: the loop over pass.Files, from file i on.
RECURSIVE collectInterfaceMethods(_, _, _, _)
collectInterfaceMethods(files, i, reg, ignore) ==
  IF i > Len(files) THEN reg
  ELSE collectInterfaceMethods(files, i + 1,
                               IF ShouldIgnoreFile(ignore, files[i]) THEN reg
                               ELSE RegisterDecls(DeclsOf(files[i]), 1, reg),
                               ignore)

\* collectInterfaceMethods(pass), in one step.
CollectPass ==
  /\ pc = "collect"
  /\ ifaceMethods' = collectInterfaceMethods(passFiles, 1, EmptyMap, cfg)
  /\ pc' = "analyze"
  /\ UNCHANGED <<cfg, fileIdx, usedMethods, varAssignments, concreteTypes, diagnostics,
                 decls, nodes, declPos, walked, runNo, firstRun, ext>>

\* The traversal visits a selector expression of the second package.
ResolveSelector ==
  /\ pc = "walk"
  /\ \E n \in MoreSelectors :
       /\ n \notin nodes /\ ProgramSize < MaxProgram
       /\ nodes' = nodes \cup {n}
       /\ walked' = walked \cup {n}
       /\ usedMethods' = analyzeSelectorExpr(n, ifaceMethods, usedMethods,
                                             varAssignments, concreteTypes)
  /\ UNCHANGED <<cfg, pc, fileIdx, ifaceMethods, varAssignments, concreteTypes,
                 diagnostics, decls, declPos, runNo, firstRun, ext>>

\* The traversal visits a call expression of the second package.
ResolveCall ==
  /\ pc = "walk"
  /\ \E n \in MoreCalls :
       /\ n \notin nodes /\ ProgramSize < MaxProgram
       /\ nodes' = nodes \cup {n}
       /\ walked' = walked \cup {n}
       /\ usedMethods' = analyzeCallExpr(n, ifaceMethods, usedMethods)
  /\ UNCHANGED <<cfg, pc, fileIdx, ifaceMethods, varAssignments, concreteTypes,
                 diagnostics, decls, declPos, runNo, firstRun, ext>>

\* The pre-pass visits a var declaration of the binding bodies.
BindVarDecl ==
  /\ pc = "bind"
  /\ declPos = Len(decls)
  /\ \E d \in BindDecls :
       /\ ProgramSize < MaxProgram
       /\ decls' = Append(decls, d)
       /\ varAssignments' = BindVar(d, varAssignments, concreteTypes).va
       /\ concreteTypes' = BindVar(d, varAssignments, concreteTypes).ct
  /\ declPos' = declPos + 1
  /\ UNCHANGED <<cfg, pc, fileIdx, ifaceMethods, usedMethods, diagnostics, nodes, walked,
                 runNo, firstRun, ext>>

\* The traversal visits a selector expression of the binding bodies.
BindSelector ==
  /\ pc = "walk"
  /\ \E n \in BindSelectors :
       /\ n \notin nodes /\ ProgramSize < MaxProgram
       /\ nodes' = nodes \cup {n}
       /\ walked' = walked \cup {n}
       /\ usedMethods' = analyzeSelectorExpr(n, ifaceMethods, usedMethods,
                                             varAssignments, concreteTypes)
  /\ UNCHANGED <<cfg, pc, fileIdx, ifaceMethods, varAssignments, concreteTypes,
                 diagnostics, decls, declPos, runNo, firstRun, ext>>

\* The traversal visits a call expression of the binding bodies.
BindCall ==
  /\ pc = "walk"
  /\ \E n \in BindCalls :
       /\ n \notin nodes /\ ProgramSize < MaxProgram
       /\ nodes' = nodes \cup {n}
       /\ walked' = walked \cup {n}
       /\ usedMethods' = analyzeCallExpr(n, ifaceMethods, usedMethods)
  /\ UNCHANGED <<cfg, pc, fileIdx, ifaceMethods, varAssignments, concreteTypes,
                 diagnostics, decls, declPos, runNo, firstRun, ext>>

\* A direct call markMatchingMethods(m, nil), as BenchmarkMarkMatchingMethods
\* makes it: the record of the call.
Direct(m) ==
  [node |-> "markMatchingMethods", file |-> Func[m].file, x |-> m, selKind |-> "none",
   recv |-> NilType, name |-> Func[m].name, fun |-> "", pkg |-> "", args |-> <<>>]

\* isMethodMatch reaches recv.Underlying() (line 322) for this candidate:
\* no direct match, the names are equal, recv.(*types.Named) fails for a nil
\* recv, the signatures are identical.
ReachesUnderlying(calledMethod, ifaceMethod) ==
  /\ ~SameObject(calledMethod, ifaceMethod)
  /\ Func[calledMethod].name = Func[ifaceMethod].name
  /\ IdenticalSig(calledMethod, ifaceMethod)

\* markMatchingMethods(m, nil) on a freshly built analyzer.  Calling
\* Underlying() on a nil types.Type panics; the loop ranges over a map, so
\* a direct match is marked before the panic or not at all.
MarkMatchingNil ==
  /\ pc = "bind"
  /\ walked = {}
  /\ \E m \in {f \in Funcs : Func[f].file \notin Files} :
       /\ walked' = {Direct(m)}
       /\ IF \E c \in DOMAIN ifaceMethods : ReachesUnderlying(m, c)
            THEN /\ pc' = "panic"
                 /\ usedMethods' \in {usedMethods,
                                       MarkAll(usedMethods, {m} \cap DOMAIN ifaceMethods)}
            ELSE /\ pc' = "matched"
                 /\ usedMethods' = markMatchingMethods(ifaceMethods, usedMethods, m, NilType)
  /\ UNCHANGED <<cfg, fileIdx, ifaceMethods, varAssignments, concreteTypes, diagnostics,
                 decls, nodes, declPos, runNo, firstRun, ext>>

----------------------------------------------------------------------------
(* The parallel collector: one goroutine per file, a shared sync.Map, a    *)
(* sync.WaitGroup, and the copy into the result map.                       *)

\* Goroutines that all read the loop variable, which by then holds the last
\* file.
WorkerFileShared(files, i) == files[Len(files)]

\* go func(file *ast.File) { ... }(file): the goroutine started in iteration
\* i works on the file of that iteration.
WorkerFile(files, i) == files[i]

\* A Wait that returns at once.
WaitReturnsAtOnce(counter) == TRUE

\* wg.Wait() returns when the counter is zero.
WaitReturns(counter) == counter = 0

\* collectInterfaceMethodsSequential: the loop over pass.Files
collectInterfaceMethodsSequential(files) == collectInterfaceMethods(files, 1, EmptyMap, {})

Worker(f) == [file |-> f, pos |-> 1, done |-> FALSE]

\* One iteration of the loop over pass.Files: wg.Add(1) and the go statement.
Spawn ==
  /\ pc = "spawn"
  /\ fileIdx <= Len(passFiles)
  /\ wg' = wg + 1
  /\ workers' = Append(workers, Worker(WorkerFile(passFiles, fileIdx)))
  /\ fileIdx' = fileIdx + 1
  /\ UNCHANGED <<cfg, pc, ifaceMethods, usedMethods, varAssignments, concreteTypes,
                 diagnostics, decls, nodes, declPos, walked, runNo, firstRun, passFiles,
                 skipGenerics, call, syncMap, storedBy, idx>>

\* A goroutine handles the next declaration of its file: every explicit
\* method of an interface declaration is stored in the sync.Map.
WorkerStep ==
  /\ \E w \in 1..Len(workers) :
       /\ ~workers[w].done
       /\ workers[w].pos <= Len(DeclsOf(workers[w].file))
       /\ LET d == DeclsOf(workers[w].file)[workers[w].pos]
              keys == DOMAIN RegisterDecl(d, EmptyMap)
          IN /\ syncMap' = RegisterDecl(d, syncMap)
             /\ storedBy' = [m \in DOMAIN storedBy \cup keys |->
                               (IF m \in DOMAIN storedBy THEN storedBy[m] ELSE {})
                                 \cup (IF m \in keys THEN {w} ELSE {})]
       /\ workers' = [workers EXCEPT ![w].pos = @ + 1]
  /\ UNCHANGED <<cfg, pc, fileIdx, ifaceMethods, usedMethods, varAssignments, concreteTypes,
                 diagnostics, decls, nodes, declPos, walked, runNo, firstRun, passFiles,
                 skipGenerics, call, wg, idx>>

\* A goroutine returns: the deferred wg.Done().
WorkerDone ==
  /\ \E w \in 1..Len(workers) :
       /\ ~workers[w].done
       /\ workers[w].pos > Len(DeclsOf(workers[w].file))
       /\ workers' = [workers EXCEPT ![w].done = TRUE]
       /\ wg' = wg - 1
  /\ UNCHANGED <<cfg, pc, fileIdx, ifaceMethods, usedMethods, varAssignments, concreteTypes,
                 diagnostics, decls, nodes, declPos, walked, runNo, firstRun, passFiles,
                 skipGenerics, call, syncMap, storedBy, idx>>

\* The loop over pass.Files is over and wg.Wait() returns.
Wait ==
  /\ pc = "spawn"
  /\ fileIdx > Len(passFiles)
  /\ WaitReturns(wg)
  /\ pc' = "merge"
  /\ UNCHANGED <<cfg, fileIdx, ifaceMethods, usedMethods, varAssignments, concreteTypes,
                 diagnostics, decls, nodes, declPos, walked, runNo, firstRun, ext>>

\* ifaceMethods.Range copies the sync.Map into the result, which is returned.
Merge ==
  /\ pc = "merge"
  /\ ifaceMethods' = syncMap
  /\ pc' = "analyze"
  /\ UNCHANGED <<cfg, fileIdx, usedMethods, varAssignments, concreteTypes, diagnostics,
                 decls, nodes, declPos, walked, runNo, firstRun, ext>>

----------------------------------------------------------------------------
(* The analyzer with the name index (newMethodAnalyzer, markMatchingMethods *)
(* and checkStringerUsage over methodIndex, isMethodMatch by                *)
(* checkImplements), next to the analyzer that scans the whole registry.    *)

\* An index whose buckets all hold one and the same method as well.
BucketWithStray(reg, nm) ==
  {m \in DOMAIN reg : Func[m].name = nm \/ m = (CHOOSE x \in DOMAIN reg : TRUE)}

\* An index that keeps one method per name.
BucketOne(reg, nm) == {CHOOSE m \in DOMAIN reg : Func[m].name = nm}

\* The methods newMethodAnalyzer appends to the bucket of a name.
Bucket(reg, nm) == {m \in DOMAIN reg : Func[m].name = nm}

\* The orders in which a loop over a map can append the elements of S
RECURSIVE Orders(_)
Orders(S) ==
  IF S = {} THEN {<<>>}
  ELSE UNION { {<<x>> \o t : t \in Orders(S \ {x})} : x \in S }

\* The indexes newMethodAnalyzer can build over the names ns: the loop
\* ranges over the registry, a map, in any order.
RECURSIVE Indexes(_, _)
Indexes(reg, ns) ==
  IF ns = {} THEN {EmptyMap}
  ELSE LET nm == CHOOSE x \in ns : TRUE
       IN {Put(f, nm, o) : f \in Indexes(reg, ns \ {nm}), o \in Orders(Bucket(reg, nm))}

\* types.Implements(info.iface, recvIface): the interface has every method
\* of the receiver's interface type
InterfaceImplements(i, recv) ==
  {NameSig(m) : m \in TypeMethods(recv)} \subseteq {NameSig(m) : m \in AllMethods(i)}

\* checkGenericImplements: the receiver is a named type whose origin is an
\* interface type identical to the candidate's
checkGenericImplements(recv, info) ==
  /\ recv.k \in {"named", "inst"}
  /\ recv.n \in Ifaces
  /\ {NameSig(m) : m \in AllMethods(recv.n)} = {NameSig(m) : m \in AllMethods(info.iface)}

checkImplements(recv, info) ==
  IF Implements(recv, info.iface) THEN TRUE
  ELSE IF IsInterfaceType(recv) /\ InterfaceImplements(info.iface, recv) THEN TRUE
  ELSE checkGenericImplements(recv, info)

\* isMethodMatch of the analyzers that resolve by checkImplements
isMethodMatchByImplements(calledMethod, ifaceMethod, recv, info) ==
  IF calledMethod = ifaceMethod THEN TRUE
  ELSE IF Func[calledMethod].name # Func[ifaceMethod].name THEN FALSE
  ELSE checkImplements(recv, info)

\* markMatchingMethods over the whole registry
markMatchingMethodsByScan(reg, used, calledMethod, recv) ==
  MarkAll(used, {m \in DOMAIN reg :
                   ~IsTrue(used, m) /\ isMethodMatchByImplements(calledMethod, m, recv, reg[m])})

\* markMatchingMethods over the bucket of the called method's name: the loop
\* over candidateMethods, from candidate i on
RECURSIVE markCandidates(_, _, _, _, _, _)
markCandidates(cands, i, reg, used, calledMethod, recv) ==
  IF i > Len(cands) THEN used
  ELSE markCandidates(cands, i + 1, reg,
                      IF /\ ~IsTrue(used, cands[i])
                         /\ isMethodMatchByImplements(calledMethod, cands[i], recv, reg[cands[i]])
                        THEN Put(used, cands[i], TRUE)
                        ELSE used,
                      calledMethod, recv)

\* ma.methodIndex[name]: nil for a missing key
Candidates(index, name) == IF name \in DOMAIN index THEN index[name] ELSE <<>>

markMatchingMethodsByIndex(reg, index, used, calledMethod, recv) ==
  markCandidates(Candidates(index, Func[calledMethod].name), 1, reg, used, calledMethod, recv)

\* checkStringerUsage over the bucket "String", from candidate i on
RECURSIVE checkStringerUsageByIndex(_, _, _, _, _)
checkStringerUsageByIndex(cands, i, reg, used, argType) ==
  IF i > Len(cands) THEN used
  ELSE checkStringerUsageByIndex(cands, i + 1, reg,
                                 IF /\ ~IsTrue(used, cands[i])
                                    /\ isStringerMethod(cands[i])
                                    /\ Implements(argType, reg[cands[i]].iface)
                                   THEN Put(used, cands[i], TRUE)
                                   ELSE used,
                                 argType)

\* analyzeFmtCall: the loop over node.Args
RECURSIVE analyzeFmtCallByIndex(_, _, _, _, _)
analyzeFmtCallByIndex(args, i, reg, index, used) ==
  IF i > Len(args) THEN used
  ELSE analyzeFmtCallByIndex(args, i + 1, reg, index,
                             IF args[i] = NilType THEN used
                             ELSE checkStringerUsageByIndex(Candidates(index, "String"), 1,
                                                            reg, used, args[i]))

\* The nodes of the files of the package
PackageNodes(S) == {n \in S : \E k \in 1..Len(passFiles) : passFiles[k] = n.file}

\* collectInterfaceMethods(pass) of the parallel collector, in one step: its
\* result is that of the sequential loop whatever the interleaving.
CollectAll ==
  /\ pc = "collect"
  /\ ifaceMethods' = collectInterfaceMethodsSequential(passFiles)
  /\ pc' = "analyze"
  /\ UNCHANGED <<cfg, fileIdx, usedMethods, varAssignments, concreteTypes, diagnostics,
                 decls, nodes, declPos, walked, runNo, firstRun, ext>>

\* newMethodAnalyzer builds the index; analyze() starts its traversal.
NewIndexedAnalyzer ==
  /\ pc = "analyze"
  /\ methodIndex' \in Indexes(ifaceMethods, {Func[m].name : m \in DOMAIN ifaceMethods})
  /\ usedMethods' = EmptyMap
  /\ usedScan' = EmptyMap
  /\ pc' = "walk"
  /\ UNCHANGED <<cfg, fileIdx, ifaceMethods, varAssignments, concreteTypes, diagnostics,
                 decls, nodes, declPos, walked, runNo, firstRun, passFiles, skipGenerics,
                 call, par>>

\* Both analyzers visit a selector expression of the package.
IndexedSelector ==
  /\ pc = "walk"
  /\ \E n \in PackageNodes(Selectors \cup MoreSelectors) :
       /\ n \notin nodes /\ ProgramSize < MaxProgram
       /\ nodes' = nodes \cup {n}
       /\ walked' = walked \cup {n}
       /\ IF n.selKind \notin {"MethodVal", "MethodExpr"}
            THEN UNCHANGED <<usedMethods, usedScan>>
            ELSE /\ usedMethods' = markMatchingMethodsByIndex(ifaceMethods, methodIndex,
                                                              usedMethods, CalledMethod(n), n.recv)
                 /\ usedScan' = markMatchingMethodsByScan(ifaceMethods, usedScan,
                                                          CalledMethod(n), n.recv)
  /\ UNCHANGED <<cfg, pc, fileIdx, ifaceMethods, varAssignments, concreteTypes, diagnostics,
                 decls, declPos, runNo, firstRun, passFiles, skipGenerics, call, par,
                 methodIndex>>

\* Both analyzers visit a call expression of the package.
IndexedCall ==
  /\ pc = "walk"
  /\ \E n \in PackageNodes(Calls \cup MoreCalls) :
       /\ n \notin nodes /\ ProgramSize < MaxProgram
       /\ nodes' = nodes \cup {n}
       /\ walked' = walked \cup {n}
       /\ IF ~isFmtFunction(n)
            THEN UNCHANGED <<usedMethods, usedScan>>
            ELSE /\ usedMethods' = analyzeFmtCallByIndex(n.args, 1, ifaceMethods, methodIndex,
                                                         usedMethods)
                 /\ usedScan' = analyzeFmtCall(n.args, 1, ifaceMethods, usedScan)
  /\ UNCHANGED <<cfg, pc, fileIdx, ifaceMethods, varAssignments, concreteTypes, diagnostics,
                 decls, declPos, runNo, firstRun, passFiles, skipGenerics, call, par,
                 methodIndex>>

----------------------------------------------------------------------------
(* reportUnusedMethods                                                     *)

\* A comparison that forgets the file name.
LessByLine(m1, m2) == Func[m1].line < Func[m2].line

\* The comparison handed to sort.Slice, on the positions of two methods.
Less(m1, m2) ==
  IF Func[m1].file # Func[m2].file
    THEN Func[m1].file < Func[m2].file
    ELSE Func[m1].line < Func[m2].line

\* A first loop that sets no flag.
MarkUsedNone(reg, used) == reg

\* The first loop: the registry with the used flag set for the keys of used.
MarkUsed(reg, used) ==
  [m \in DOMAIN reg |-> IF m \in DOMAIN used THEN [reg[m] EXCEPT !.used = TRUE] ELSE reg[m]]

\* A second loop that appends every entry.
UnusedAll(reg) == DOMAIN reg

\* The second loop: the entries appended to the slice unused.
Unused(reg) == {m \in DOMAIN reg : ~reg[m].used}

\* The orders sort.Slice can leave the slice in: the slice is filled in map
\* iteration order and the sort is not stable, so elements that compare
\* equal end in any order.
RECURSIVE SortSlice(_)
SortSlice(S) ==
  IF S = {} THEN {<<>>}
  ELSE UNION { {<<x>> \o t : t \in SortSlice(S \ {x})} :
               x \in {y \in S : \A z \in S : ~Less(z, y)} }

\* pass.Reportf(info.method.Pos(), "method %q of interface %q ...")
Diagnostic(reg, m) ==
  [file |-> Func[m].file, line |-> Func[m].line, col |-> Func[m].col,
   method |-> Func[m].name, iface |-> reg[m].ifaceName, obj |-> m]

Report ==
  /\ pc = "report"
  /\ ifaceMethods' = MarkUsed(ifaceMethods, usedMethods)
  /\ \E order \in SortSlice(Unused(MarkUsed(ifaceMethods, usedMethods))) :
       diagnostics' = diagnostics \o [i \in 1..Len(order) |-> Diagnostic(ifaceMethods, order[i])]
  /\ pc' = "done"
  /\ UNCHANGED <<cfg, fileIdx, usedMethods, varAssignments, concreteTypes, decls, nodes,
                 declPos, walked, runNo, firstRun, ext>>

\* The analysis runs a second time on the unchanged package.
Rerun ==
  /\ pc = "done"
  /\ runNo = 1
  /\ runNo' = 2
  /\ firstRun' = diagnostics
  /\ pc' = "collect"
  /\ fileIdx' = 1
  /\ ifaceMethods' = EmptyMap
  /\ usedMethods' = EmptyMap
  /\ varAssignments' = EmptyMap
  /\ concreteTypes' = EmptyMap
  /\ diagnostics' = <<>>
  /\ declPos' = 0
  /\ walked' = {}
  /\ UNCHANGED <<cfg, decls, nodes, ext>>

----------------------------------------------------------------------------

Init ==
  /\ cfg \in SUBSET Files
  /\ pc = "collect"
  /\ fileIdx = 1
  /\ ifaceMethods = EmptyMap
  /\ usedMethods = EmptyMap
  /\ varAssignments = EmptyMap
  /\ concreteTypes = EmptyMap
  /\ diagnostics = <<>>
  /\ decls = <<>>
  /\ nodes = {}
  /\ declPos = 0
  /\ walked = {}
  /\ runNo = 1
  /\ firstRun = <<>>
  /\ passFiles = <<1, 2>>
  /\ skipGenerics = FALSE
  /\ NoCall
  /\ NoWorkers

Next ==
  \/ CollectFile
  \/ NewMethodAnalyzer
  \/ VisitVarDecl
  \/ EndVarDecls
  \/ VisitSelector
  \/ VisitCall
  \/ EndWalk
  \/ Report

Spec == Init /\ [][Next]_vars

NextTwice == Next \/ Rerun

SpecTwice == Init /\ [][NextTwice]_vars

\* The files of a set, in the order of their names.
RECURSIVE SortedSeq(_)
SortedSeq(S) ==
  IF S = {} THEN <<>>
  ELSE LET x == CHOOSE y \in S : \A z \in S : y <= z IN <<x>> \o SortedSeq(S \ {x})

\* run() of main.go is handed a package: some of the files, and the flag.
InitRun ==
  /\ \E S \in SUBSET (Files \cup MoreFiles) :
       Cardinality(S) <= MaxPassFiles /\ passFiles = SortedSeq(S)
  /\ skipGenerics \in BOOLEAN
  /\ NoCall
  /\ NoWorkers
  /\ cfg = {}
  /\ pc = "collect"
  /\ fileIdx = 1
  /\ ifaceMethods = EmptyMap
  /\ usedMethods = EmptyMap
  /\ varAssignments = EmptyMap
  /\ concreteTypes = EmptyMap
  /\ diagnostics = <<>>
  /\ decls = <<>>
  /\ nodes = {}
  /\ declPos = 0
  /\ walked = {}
  /\ runNo = 1
  /\ firstRun = <<>>

NextRun == RunCollectFile

\* run() is handed the second package, under any ignore configuration; its
\* function bodies hold no var declaration.
InitResolve ==
  /\ passFiles = SortedSeq(MoreFiles)
  /\ skipGenerics = FALSE
  /\ NoCall
  /\ NoWorkers
  /\ cfg \in SUBSET MoreFiles
  /\ pc = "collect"
  /\ fileIdx = 1
  /\ ifaceMethods = EmptyMap
  /\ usedMethods = EmptyMap
  /\ varAssignments = EmptyMap
  /\ concreteTypes = EmptyMap
  /\ diagnostics = <<>>
  /\ decls = <<>>
  /\ nodes = {}
  /\ declPos = 0
  /\ walked = {}
  /\ runNo = 1
  /\ firstRun = <<>>

NextNil ==
  \/ CollectPass
  \/ NewMethodAnalyzer
  \/ MarkMatchingNil

SpecNil == InitResolve /\ [][NextNil]_vars

\* The directory and file names the paths are made of.
PathElements ==
  { <<"test">>, <<"mock">>, <<"mocks">>, <<"mockups">>, <<"service">>, <<"cmd">>, <<".">>,
    <<"foo", "_test.go">>, <<"user", "_mock.go">>, <<"data", ".go">>, <<"main", ".go">> }

\* The configurations: the default one, an empty one, and each pattern of
\* the default one alone.
IgnoreLists ==
  {defaultIgnore, <<>>} \cup {<<defaultIgnore[k]>> : k \in 1..Len(defaultIgnore)}

\* ShouldIgnore is handed a relative path, as filepath.Rel and filepath.Join
\* build it on the operating system of the build.
InitIgnore ==
  /\ goos \in {"linux", "windows"}
  /\ ignoreList \in IgnoreLists
  /\ \E k \in 1..MaxDepth : \E elems \in [1..k -> PathElements] :
       filePath = Join(elems, Separator(goos))
  /\ patIdx = 1
  /\ ignored = FALSE
  /\ pc = "ignore"
  /\ NoWorkers
  /\ passFiles = <<>>
  /\ skipGenerics = FALSE
  /\ cfg = {}
  /\ fileIdx = 1
  /\ ifaceMethods = EmptyMap
  /\ usedMethods = EmptyMap
  /\ varAssignments = EmptyMap
  /\ concreteTypes = EmptyMap
  /\ diagnostics = <<>>
  /\ decls = <<>>
  /\ nodes = {}
  /\ declPos = 0
  /\ walked = {}
  /\ runNo = 1
  /\ firstRun = <<>>

NextIgnore == ShouldIgnore

SpecIgnore == InitIgnore /\ [][NextIgnore]_vars

NextResolve ==
  \/ CollectPass
  \/ NewMethodAnalyzer
  \/ EndVarDecls
  \/ ResolveSelector
  \/ ResolveCall
  \/ EndWalk
  \/ Report

SpecResolve == InitResolve /\ [][NextResolve]_vars

SpecRun == InitRun /\ [][NextRun]_vars

\* run() of part_004 is handed the first package or one file of the second.
InitIndex ==
  /\ passFiles \in {SortedSeq(Files)} \cup {<<f>> : f \in MoreFiles}
  /\ skipGenerics = FALSE
  /\ NoCall
  /\ NoWorkers
  /\ cfg = {}
  /\ pc = "collect"
  /\ fileIdx = 1
  /\ ifaceMethods = EmptyMap
  /\ usedMethods = EmptyMap
  /\ varAssignments = EmptyMap
  /\ concreteTypes = EmptyMap
  /\ diagnostics = <<>>
  /\ decls = <<>>
  /\ nodes = {}
  /\ declPos = 0
  /\ walked = {}
  /\ runNo = 1
  /\ firstRun = <<>>

NextIndex ==
  \/ CollectAll
  \/ NewIndexedAnalyzer
  \/ IndexedSelector
  \/ IndexedCall
  \/ EndWalk
  \/ Report

SpecIndex == InitIndex /\ [][NextIndex]_vars

\* run() of part_004 is handed a package: some of the files.
InitParallel ==
  /\ \E S \in SUBSET (Files \cup MoreFiles) :
       Cardinality(S) <= MaxPassFiles /\ passFiles = SortedSeq(S)
  /\ skipGenerics = FALSE
  /\ NoCall
  /\ NoWorkers
  /\ cfg = {}
  /\ pc = "spawn"
  /\ fileIdx = 1
  /\ ifaceMethods = EmptyMap
  /\ usedMethods = EmptyMap
  /\ varAssignments = EmptyMap
  /\ concreteTypes = EmptyMap
  /\ diagnostics = <<>>
  /\ decls = <<>>
  /\ nodes = {}
  /\ declPos = 0
  /\ walked = {}
  /\ runNo = 1
  /\ firstRun = <<>>

NextParallel ==
  \/ Spawn
  \/ WorkerStep
  \/ WorkerDone
  \/ Wait
  \/ Merge

SpecParallel == InitParallel /\ [][NextParallel]_vars

\* The first package with the binding bodies.
NextBind ==
  \/ CollectFile
  \/ NewMethodAnalyzer
  \/ BindVarDecl
  \/ EndVarDecls
  \/ BindSelector
  \/ BindCall
  \/ EndWalk
  \/ Report

SpecBind == Init /\ [][NextBind]_vars

----------------------------------------------------------------------------
(* Properties.                                                             *)

\* analyze() has returned
Analyzed == pc \in {"report", "done"}

\* The diagnostics emitted for a method object
DiagnosticsOf(m) == {i \in 1..Len(diagnostics) : diagnostics[i].obj = m}

\* The diagnostics that name an interface
DiagnosticsNaming(i) == {k \in 1..Len(diagnostics) : diagnostics[k].iface = i}

\* A selector expression that selects a method
IsMethodSelection(n) ==
  n.node = "SelectorExpr" /\ n.selKind \in {"MethodVal", "MethodExpr"}

\* A call of a function of the formatting package
IsFormattingCall(n) ==
  n.node = "CallExpr" /\ n.fun \in {"ident", "selector"} /\ n.pkg = "fmt"

WriteOnWriter(f) == Sel(f, "w", "MethodVal", Named("Writer"), "Write")

\* C1: once the report is out, every registry entry whose method is not true
\* in the used set has exactly one diagnostic, every entry whose method is
\* used has none, and nothing else is reported.  Instance: when Writer{Write,
\* Close} is the only registered interface and the only node of the package
\* body selects Write on a Writer-typed value, the report is the single
\* diagnostic for Close.
C1_ReportIsRegistryMinusUsed ==
  pc = "done" =>
    /\ \A k \in 1..Len(diagnostics) : diagnostics[k].obj \in DOMAIN ifaceMethods
    /\ \A m \in DOMAIN ifaceMethods :
         Cardinality(DiagnosticsOf(m)) = IF IsTrue(usedMethods, m) THEN 0 ELSE 1
    /\ (cfg = {2} /\ walked # {} /\ walked \subseteq {WriteOnWriter(1), WriteOnWriter(2)})
         => diagnostics = << [file |-> 1, line |-> 3, col |-> 2, method |-> "Close",
                              iface |-> "Writer", obj |-> "WriterClose"] >>

C1_Witness ==
  /\ pc = "done"
  /\ cfg = {2}
  /\ walked = {WriteOnWriter(1)}
  /\ Len(diagnostics) = 1
  /\ IsTrue(usedMethods, "WriterWrite")

\* The selections of method m on a receiver whose static type is the named
\* interface that declares m
SelectionsOnDeclaringInterface(m) ==
  {n \in walked : /\ IsMethodSelection(n)
                  /\ n.recv.k = "named"
                  /\ n.recv.n = ifaceMethods[m].iface
                  /\ n.name = Func[m].name}

\* C2: a registered method that some visited selector selects on a receiver
\* whose static type is its declaring interface is true in the used set from
\* that node on, hence after analyze(), and is never reported.
C2_SelectedOnDeclaringInterfaceIsUsed ==
  \A m \in DOMAIN ifaceMethods :
    SelectionsOnDeclaringInterface(m) # {} =>
      IsTrue(usedMethods, m) /\ DiagnosticsOf(m) = {}

C2_Witness ==
  /\ pc = "done"
  /\ "WriterClose" \in DOMAIN ifaceMethods
  /\ SelectionsOnDeclaringInterface("WriterClose") # {}
  /\ diagnostics # <<>>

\* C5: consecutive diagnostics are ordered by file path ascending and, within
\* a file, by line ascending.
C5_DiagnosticsSortedByFileThenLine ==
  \A k \in 1..(Len(diagnostics) - 1) :
    \/ diagnostics[k].file < diagnostics[k + 1].file
    \/ /\ diagnostics[k].file = diagnostics[k + 1].file
       /\ diagnostics[k].line <= diagnostics[k + 1].line

C5_Witness ==
  /\ pc = "done"
  /\ \E k \in 1..(Len(diagnostics) - 1) : diagnostics[k].file < diagnostics[k + 1].file
  /\ \E k \in 1..(Len(diagnostics) - 1) :
       /\ diagnostics[k].file = diagnostics[k + 1].file
       /\ diagnostics[k].line < diagnostics[k + 1].line
  /\ \E k \in 1..(Len(diagnostics) - 1) :
       /\ diagnostics[k].file = diagnostics[k + 1].file
       /\ diagnostics[k].line = diagnostics[k + 1].line

\* The top-level interfaces declared in files the configuration does not
\* ignore
AnalyzedInterfaces ==
  {i \in Ifaces : \E f \in Files \ cfg : \E k \in 1..Len(FileDecls[f]) :
                    /\ FileDecls[f][k].tok = "TYPE"
                    /\ FileDecls[f][k].ifaceType
                    /\ FileDecls[f][k].name = i}

\* C6: after collectInterfaceMethods the keys of the registry are exactly the
\* explicitly declared methods of the top-level interfaces of the files that
\* are not ignored, each entry names the interface that declares its method
\* explicitly (B, which embeds A, owns no entry for A's method Am), and the
\* interface with no methods, Empty, has no entry.
C6_RegistryIsExplicitMethods ==
  pc # "collect" =>
    /\ DOMAIN ifaceMethods = UNION {Range(Iface[i].explicit) : i \in AnalyzedInterfaces}
    /\ \A m \in DOMAIN ifaceMethods :
         /\ ifaceMethods[m].method = m
         /\ ifaceMethods[m].iface = ifaceMethods[m].ifaceName
         /\ m \in Range(Iface[ifaceMethods[m].ifaceName].explicit)
    /\ \A m \in DOMAIN ifaceMethods : ifaceMethods[m].ifaceName # "Empty"
    /\ "AAm" \in DOMAIN ifaceMethods => ifaceMethods["AAm"].ifaceName # "B"

C6_Witness ==
  /\ pc = "analyze"
  /\ cfg = {1}
  /\ "AAm" \in DOMAIN ifaceMethods
  /\ ifaceMethods["AAm"].ifaceName = "A"
  /\ "BBm" \in DOMAIN ifaceMethods
  /\ "WriterWrite" \notin DOMAIN ifaceMethods

\* C3: for every interface declared in a file that is not ignored, when no
\* file that is not ignored holds a method selection or a formatting call,
\* the report has exactly one diagnostic for each of its explicitly declared
\* methods, N in all, each naming the interface.
C3_UncalledInterfaceFullyReported ==
  pc = "done" =>
    \A i \in AnalyzedInterfaces :
      (\A n \in nodes : n.file \notin cfg => ~IsMethodSelection(n) /\ ~IsFormattingCall(n))
        => /\ Cardinality(DiagnosticsNaming(i)) = Len(Iface[i].explicit)
           /\ \A k \in 1..Len(Iface[i].explicit) :
                \E j \in DiagnosticsNaming(i) : diagnostics[j].obj = Iface[i].explicit[k]

\* C4: a second run on the unchanged package emits the diagnostics of the
\* first run, in the same order.
C4_SecondRunSameOutput ==
  (runNo = 2 /\ pc = "done") => diagnostics = firstRun

\* Two distinct registered interfaces that explicitly declare a method of the
\* same name and signature: <<m1, m2>> are the two method objects.
SameShapedPairs ==
  {p \in (DOMAIN ifaceMethods) \X (DOMAIN ifaceMethods) :
     /\ ifaceMethods[p[1]].ifaceName # ifaceMethods[p[2]].ifaceName
     /\ Func[p[1]].name = Func[p[2]].name
     /\ IdenticalSig(p[1], p[2])}

\* Every selection of a method of m's name is on a value whose static type
\* is the named interface that declares m, and there is one.
SelectedOnlyOnDeclaringInterface(m) ==
  /\ SelectionsOnDeclaringInterface(m) # {}
  /\ \A n \in walked :
       (IsMethodSelection(n) /\ n.name = Func[m].name)
         => n \in SelectionsOnDeclaringInterface(m) /\ n.selKind = "MethodVal"

\* A formatting call has an argument whose static type satisfies interface i
FormattedAs(i) ==
  \E n \in walked : IsFormattingCall(n) /\ \E k \in 1..Len(n.args) : Implements(n.args[k], i)

\* C7 as stated: when the only selections of the shared method are on values
\* statically typed I1, and no alias or concrete-type binding was recorded,
\* I1's method is used, I2's is not, and the report has exactly one
\* diagnostic for the pair, I2's.
C7_AsStated ==
  Analyzed =>
    \A p \in SameShapedPairs :
      (/\ SelectedOnlyOnDeclaringInterface(p[1])
       /\ varAssignments = EmptyMap
       /\ concreteTypes = EmptyMap)
        => /\ IsTrue(usedMethods, p[1])
           /\ ~IsTrue(usedMethods, p[2])
           /\ pc = "done" => (DiagnosticsOf(p[1]) = {} /\ Cardinality(DiagnosticsOf(p[2])) = 1)

\* C7, amended: the same, provided no formatting call is passed a value whose
\* static type satisfies I2.
C7_OnlyTheCalledInterfaceIsUsed ==
  Analyzed =>
    \A p \in SameShapedPairs :
      (/\ SelectedOnlyOnDeclaringInterface(p[1])
       /\ varAssignments = EmptyMap
       /\ concreteTypes = EmptyMap
       /\ ~FormattedAs(ifaceMethods[p[2]].iface))
        => /\ IsTrue(usedMethods, p[1])
           /\ ~IsTrue(usedMethods, p[2])
           /\ pc = "done" => (DiagnosticsOf(p[1]) = {} /\ Cardinality(DiagnosticsOf(p[2])) = 1)

C7_Witness ==
  /\ pc = "done"
  /\ <<"ProcProcess", "HandlerProcess">> \in SameShapedPairs
  /\ SelectedOnlyOnDeclaringInterface("ProcProcess")
  /\ varAssignments = EmptyMap
  /\ concreteTypes = EmptyMap
  /\ ~FormattedAs("Handler")
  /\ DiagnosticsOf("HandlerProcess") # {}

\* The declarations var b B = a of the package body, a an identifier whose
\* type is a named interface
AliasDeclarations ==
  {k \in 1..Len(decls) :
     /\ decls[k].tok = "VAR" /\ decls[k].names = 1 /\ decls[k].values = 1
     /\ decls[k].rhs = "ident"
     /\ IsInterfaceType(decls[k].lhsType) /\ decls[k].lhsType.k = "named"
     /\ IsInterfaceType(decls[k].rhsType) /\ decls[k].rhsType.k = "named"}

\* C8: for every declaration var b B = a (a of interface type A) of the
\* package and every registered method of A whose name and signature B
\* shares, a selection of that method on b marks A's method used.
C8_AliasMarksSourceInterface ==
  Analyzed =>
    \A k \in AliasDeclarations : \A m \in DOMAIN ifaceMethods :
      (/\ ifaceMethods[m].ifaceName = decls[k].rhsType.n
       /\ \E mb \in AllMethods(decls[k].lhsType.n) : NameSig(mb) = NameSig(m)
       /\ \E n \in walked : /\ IsMethodSelection(n)
                            /\ n.x = decls[k].lhs
                            /\ n.recv = decls[k].lhsType
                            /\ n.name = Func[m].name)
        => IsTrue(usedMethods, m)

\* C9: B embeds A.  When a visited selector selects A's explicitly declared
\* method on a value whose static type is a concrete type that implements A,
\* A's entry is used after analyze(), and no entry of the registry is owned
\* by B for that method.
C9_EmbeddedMethodUsedThroughConcreteType ==
  Analyzed =>
    \A b \in Ifaces : \A a \in Iface[b].embeds : \A m \in Range(Iface[a].explicit) :
      (/\ m \in DOMAIN ifaceMethods
       /\ \E n \in walked : /\ IsMethodSelection(n)
                            /\ ~IsInterfaceType(n.recv)
                            /\ Implements(n.recv, a)
                            /\ n.name = Func[m].name)
        => /\ IsTrue(usedMethods, m)
           /\ \A k \in DOMAIN ifaceMethods :
                ifaceMethods[k].ifaceName = b => Func[k].name # Func[m].name

C9_Witness ==
  /\ pc = "done"
  /\ "AAm" \in DOMAIN ifaceMethods
  /\ "BBm" \in DOMAIN ifaceMethods
  /\ walked = {Sel(2, "t", "MethodVal", Named("Impl"), "Am")}
  /\ IsTrue(usedMethods, "AAm")
  /\ DiagnosticsOf("BBm") # {}

\* C10: when a formatting call is passed a value whose static type satisfies
\* a registered interface whose only method is String() string, that method
\* is used from that node on, whether or not a selector selects it.
C10_FormattingCallMarksStringer ==
  \A m \in DOMAIN ifaceMethods :
    (/\ NameSig(m) = <<"String", SigString>>
     /\ AllMethods(ifaceMethods[m].iface) = {m}
     /\ FormattedAs(ifaceMethods[m].iface))
      => IsTrue(usedMethods, m)

C10_Witness ==
  /\ pc = "done"
  /\ walked = {Call(1, "selector", "fmt", <<Named("Impl")>>)}
  /\ IsTrue(usedMethods, "StringerString")
  /\ DiagnosticsOf("StringerString") = {}

\* The interfaces declared at the top level of the files of the pass
DeclaredInterfaces ==
  {i \in Ifaces : \E k \in 1..Len(passFiles) : \E j \in 1..Len(DeclsOf(passFiles[k])) :
                    /\ DeclsOf(passFiles[k])[j].tok = "TYPE"
                    /\ DeclsOf(passFiles[k])[j].ifaceType
                    /\ DeclsOf(passFiles[k])[j].name = i}

\* The entries of a registry whose owner declares no type parameters
NonGenericEntries(reg) ==
  [m \in {x \in DOMAIN reg : reg[x].ifaceName \notin TypeParams} |-> reg[m]]

\* C11: once run() has collected, with skipGenerics off the registry holds
\* the explicit methods of every declared interface, generic or not; with
\* skipGenerics on it holds no entry owned by an interface that declares type
\* parameters, and its entries of the other interfaces are those the same
\* package yields with the flag off.
C11_GenericsToggle ==
  pc = "analyze" =>
    /\ ~skipGenerics =>
          DOMAIN ifaceMethods = UNION {Range(Iface[i].explicit) : i \in DeclaredInterfaces}
    /\ skipGenerics => \A m \in DOMAIN ifaceMethods : ifaceMethods[m].ifaceName \notin TypeParams
    /\ NonGenericEntries(ifaceMethods)
          = NonGenericEntries(RunCollect(passFiles, 1, EmptyMap, FALSE))
    /\ \A m \in DOMAIN ifaceMethods :
          /\ ifaceMethods[m].method = m
          /\ m \in Range(Iface[ifaceMethods[m].ifaceName].explicit)

C11_Witness ==
  /\ pc = "analyze"
  /\ skipGenerics
  /\ 3 \in Range(passFiles)
  /\ "GetterGet" \in DOMAIN ifaceMethods
  /\ "GenericRepositoryGet" \notin DOMAIN ifaceMethods
  /\ "GenericRepositoryGet" \in DOMAIN RunCollect(passFiles, 1, EmptyMap, FALSE)

\* The file a declaration of the package body stands in: the function
\* bodies of the package are in b.go.
DeclFile(d) == 2

\* C12: the traversal skips the files the configuration ignores, as the
\* collector does: a method is used only if a selection or a formatting call
\* in a file that is not ignored marked it, the declarations of an ignored
\* file record no binding, and a registered method that is selected only in
\* ignored files (and that no formatting call outside them can mark) has its
\* diagnostic in the report.
C12_TraversalSkipsExcludedFiles ==
  /\ \A m \in DOMAIN ifaceMethods :
       IsTrue(usedMethods, m)
         => \E n \in walked : n.file \notin cfg /\ (IsMethodSelection(n) \/ IsFormattingCall(n))
  /\ (\A k \in 1..declPos : DeclFile(decls[k]) \in cfg)
       => (varAssignments = EmptyMap /\ concreteTypes = EmptyMap)
  /\ pc = "done" =>
       \A m \in DOMAIN ifaceMethods :
         (\A n \in walked :
            ((IsMethodSelection(n) /\ n.name = Func[m].name) \/ IsFormattingCall(n))
              => n.file \in cfg)
           => Cardinality(DiagnosticsOf(m)) = 1

\* The traversal visited a witness of the use of method m: a selection of a
\* method of m's name or, for String() string, a formatting call with an
\* argument whose static type satisfies m's interface.
VisitedWitness(m) ==
  \/ \E n \in walked : IsMethodSelection(n) /\ n.name = Func[m].name
  \/ NameSig(m) = <<"String", SigString>> /\ FormattedAs(ifaceMethods[m].iface)

\* v.MethodByName("Reflection") on v := reflect.ValueOf(x)
ReflectionNodes ==
  { Sel(5, "v", "MethodVal", Named("reflectValue"), "MethodByName"),
    Call(5, "selector", "reflect", <<Named("Reflectable")>>) }

\* C13: only registered methods are marked, a registered method is used only
\* if the traversal visited a witness of its use, and a method without one,
\* such as Reflectable.Reflection when it is invoked through reflection by
\* name only, is not used and has its diagnostic in the report.
C13_UsedOnlyWithWitness ==
  /\ DOMAIN usedMethods \subseteq DOMAIN ifaceMethods
  /\ \A m \in DOMAIN ifaceMethods : IsTrue(usedMethods, m) => VisitedWitness(m)
  /\ pc = "done" =>
       \A m \in DOMAIN ifaceMethods :
         ~VisitedWitness(m) => Cardinality(DiagnosticsOf(m)) = 1

C13_Witness ==
  /\ pc = "done"
  /\ walked = ReflectionNodes
  /\ "ReflectableReflection" \in DOMAIN ifaceMethods
  /\ ~IsTrue(usedMethods, "ReflectableReflection")
  /\ DiagnosticsOf("ReflectableReflection") # {}

\* C14: when the traversal visited a selection of method M on a value
\* type-asserted to an interface literal that declares M, every registered
\* method of M's name and signature whose owning interface satisfies the
\* literal is used, whatever else the owning interface declares or embeds.
C14_TypeAssertionMarksSatisfyingInterfaces ==
  Analyzed =>
    \A n \in walked :
      (IsMethodSelection(n) /\ n.recv.k = "iface") =>
        \A m \in DOMAIN ifaceMethods :
          (/\ Func[m].name = n.name
           /\ IdenticalSig(m, CalledMethod(n))
           /\ Implements(Named(ifaceMethods[m].iface), n.recv.n))
            => IsTrue(usedMethods, m)

\* The directories and the file name of the path handed to ShouldIgnore,
\* without its "." elements
PathOf ==
  SelectSeq(Split(filePath, 1, <<>>, {Separator(goos)}), KeepElement)

\* The path's file name ends in the given suffix
FileNameEndsIn(suffix) ==
  /\ Len(PathOf) > 0
  /\ Len(PathOf[Len(PathOf)]) > 1
  /\ PathOf[Len(PathOf)][Len(PathOf[Len(PathOf)])] = suffix

\* C15: ShouldIgnore returns true iff some pattern of the list matches the
\* cleaned path; under the default configuration it returns true for every
\* *_test.go and *_mock.go file at any depth, for everything under the
\* directory test/ and under a directory mock/ or mocks/ at any depth, and
\* false for service/mockups/data.go and cmd/main.go.
C15_ShouldIgnore ==
  pc = "returned" =>
    /\ ignored <=> \E k \in 1..Len(ignoreList) :
                     doublestarMatch(ignoreList[k], Clean(goos, filePath))
    /\ ignoreList = defaultIgnore =>
         /\ (FileNameEndsIn("_test.go") \/ FileNameEndsIn("_mock.go")) => ignored
         /\ (Len(PathOf) > 1 /\ PathOf[1] = <<"test">>) => ignored
         /\ (\E k \in 1..(Len(PathOf) - 1) : PathOf[k] \in {<<"mock">>, <<"mocks">>}) => ignored
         /\ PathOf \in { << <<"service">>, <<"mockups">>, <<"data", ".go">> >>,
                          << <<"cmd">>, <<"main", ".go">> >> } => ~ignored

\* C16: a call markMatchingMethods(m, nil) completes without failure, and
\* after it a registered method is used iff it is m itself or has m's name
\* and a signature identical to m's.
C16_NilReceiverMatchesByNameAndSignature ==
  \A n \in walked :
    n.node = "markMatchingMethods" =>
      /\ pc = "matched"
      /\ \A c \in DOMAIN ifaceMethods :
           IsTrue(usedMethods, c)
             <=> (c = n.x \/ (Func[c].name = n.name /\ IdenticalSig(c, n.x)))

\* The pointer form *T of a concrete receiver type T (T itself when the
\* receiver already is a pointer).
PointerForm(t) == Pointer(t.n)

\* C17: when a visited selector selects a method on a receiver of concrete
\* type T, every registered method with the selected method's name and an
\* identical signature whose interface T or *T satisfies is used from that
\* node on: a selection on a value of T whose methods have pointer receivers
\* marks the method of an interface that *T satisfies.
C17_ConcreteReceiverValueAndPointerForm ==
  \A n \in walked : \A c \in DOMAIN ifaceMethods :
    (/\ IsMethodSelection(n)
     /\ ~IsInterfaceType(n.recv)
     /\ n.recv.k \in {"named", "ptr"}
     /\ Func[c].name = n.name
     /\ IdenticalSig(CalledMethod(n), c)
     /\ \/ Implements(n.recv, ifaceMethods[c].iface)
        \/ Implements(PointerForm(n.recv), ifaceMethods[c].iface))
      => IsTrue(usedMethods, c)

\* A visited node other than n that is a witness of the use of method c.
OtherWitness(n, c) ==
  \/ \E n2 \in walked \ {n} : IsMethodSelection(n2) /\ n2.name = Func[c].name
  \/ NameSig(c) = <<"String", SigString>> /\ FormattedAs(ifaceMethods[c].iface)

\* The selection n of a method on an instantiation G[...] marks the registered
\* methods of that name owned by the interface named G, and no method of
\* that name owned by another interface is used unless another visited node
\* is a witness of its use.
GenericRule(n) ==
  \A c \in DOMAIN ifaceMethods :
    Func[c].name = n.name =>
      IF ifaceMethods[c].ifaceName = n.recv.n
        THEN IsTrue(usedMethods, c)
        ELSE IsTrue(usedMethods, c) => OtherWitness(n, c)

SelectionAccountsFor(n, c) ==
  /\ IsMethodSelection(n)
  /\ n.name = Func[c].name
  /\ \/ IdenticalSig(CalledMethod(n), c)
     \/ n.recv.k = "inst" /\ n.recv.n = ifaceMethods[c].ifaceName

\* p1.Process("x") on a ProcessorV1 and p3.Process(x) on an AnyProcessor
ProcessorSelections ==
  { Sel(4, "p1", "MethodVal", Named("ProcessorV1"), "Process"),
    Sel(4, "p3", "MethodVal", Named("AnyProcessor"), "Process") }

ProcessMethods ==
  {"ProcessorV1Process", "ProcessorV2Process", "AnyProcessorProcess", "AnyHandlerProcess"}

\* C19: a method marked by a selection has the selected method's name and,
\* outside the generic-instantiation rule, a signature identical to the
\* selected method's; with the four Process methods registered, selections
\* on a ProcessorV1 and an AnyProcessor value mark exactly those two methods.
C19_NoMarkOnNameOrSignatureMismatch ==
  /\ \A c \in DOMAIN ifaceMethods :
       IsTrue(usedMethods, c) =>
         \/ \E n \in walked : SelectionAccountsFor(n, c)
         \/ NameSig(c) = <<"String", SigString>> /\ FormattedAs(ifaceMethods[c].iface)
  /\ (walked = ProcessorSelections /\ ProcessMethods \subseteq DOMAIN ifaceMethods)
       => {m \in DOMAIN ifaceMethods : IsTrue(usedMethods, m)}
            = {"ProcessorV1Process", "AnyProcessorProcess"}

C19_Witness ==
  /\ pc = "done"
  /\ walked = ProcessorSelections
  /\ ProcessMethods \subseteq DOMAIN ifaceMethods
  /\ IsTrue(usedMethods, "ProcessorV1Process") /\ IsTrue(usedMethods, "AnyProcessorProcess")
  /\ DiagnosticsOf("ProcessorV2Process") # {} /\ DiagnosticsOf("AnyHandlerProcess") # {}

\* The methods that are used although no visited selection accounts for
\* them: the methods marked by formatting calls alone.
MarkedByFormatting ==
  {m \in DOMAIN ifaceMethods :
     IsTrue(usedMethods, m) /\ ~\E n \in walked : SelectionAccountsFor(n, m)}

\* The registered methods owned by the interface that owns m
RegisteredSiblings(m) ==
  {c \in DOMAIN ifaceMethods : ifaceMethods[c].ifaceName = ifaceMethods[m].ifaceName}

FirstMethodOnThird == Sel(7, "t", "MethodVal", Named("Third"), "FirstMethod")

\* C21: with First{FirstMethod}, Second{First; SecondMethod} and
\* Third{Second; ThirdMethod} registered, once the traversal visited
\* t.FirstMethod() with t of type Third, First.FirstMethod is used; an
\* explicitly declared method of the chain that no visited selector selects
\* is not used, and is reported once the report is out.
C21_InterfaceChain ==
  /\ (FirstMethodOnThird \in walked /\ "FirstFirstMethod" \in DOMAIN ifaceMethods)
       => IsTrue(usedMethods, "FirstFirstMethod")
  /\ \A m \in {"FirstFirstMethod", "SecondSecondMethod", "ThirdThirdMethod"} :
       (/\ m \in DOMAIN ifaceMethods
        /\ ~\E n \in walked : IsMethodSelection(n) /\ n.name = Func[m].name)
         => /\ ~IsTrue(usedMethods, m)
            /\ pc = "done" => Cardinality(DiagnosticsOf(m)) = 1

C21_Witness ==
  /\ pc = "done"
  /\ walked = {FirstMethodOnThird}
  /\ IsTrue(usedMethods, "FirstFirstMethod")
  /\ DiagnosticsOf("FirstFirstMethod") = {}
  /\ DiagnosticsOf("SecondSecondMethod") # {}
  /\ ifaceMethods["SecondSecondMethod"].ifaceName = "Second"

\* The concrete types T of the declarations var x I = &T{} of the package,
\* I an interface type, in any scope.
BoundConcretes(x) ==
  {decls[k].rhsType.n : k \in {j \in 1..Len(decls) :
     /\ decls[j].tok = "VAR" /\ decls[j].lhs = x
     /\ decls[j].lhsType # NilType /\ IsInterfaceType(decls[j].lhsType)
     /\ decls[j].rhs = "addr" /\ decls[j].rhsType # NilType}}

\* C22: when the package declares var x I = &T{} and the traversal visited
\* a selection x.M, every registered method named M with a signature
\* identical to the selected method's whose interface T or *T satisfies is
\* used, whether or not I is registered and whichever other concrete types
\* are declared for the name x.
C22_ConcreteTypeBinding ==
  \A n \in walked :
    IsMethodSelection(n) =>
      \A t \in BoundConcretes(n.x) : \A c \in DOMAIN ifaceMethods :
        (/\ Func[c].name = n.name
         /\ IdenticalSig(c, CalledMethod(n))
         /\ \/ Implements(Named(t), ifaceMethods[c].iface)
            \/ Implements(Pointer(t), ifaceMethods[c].iface))
          => IsTrue(usedMethods, c)

\* A node without static type information: a selector without an entry in
\* TypesInfo.Selections, a formatting call whose arguments all lack a type.
IsGapNode(n) ==
  \/ n.node = "SelectorExpr" /\ n.selKind = "none"
  \/ IsFormattingCall(n) /\ \A k \in 1..Len(n.args) : n.args[k] = NilType

\* A var declaration whose declared name, or whose identifier on the right,
\* has no object.
IsGapDecl(d) ==
  d.tok = "VAR" /\ (d.lhsType = NilType \/ (d.rhs = "ident" /\ d.rhsType = NilType))

HasType(t) == t # NilType

\* The node without its arguments of unknown type.
WithoutGaps(n) == [n EXCEPT !.args = SelectSeq(n.args, HasType)]

\* The bindings after the declarations ds[i..], from the bindings b.
RECURSIVE BindAll(_, _, _)
BindAll(ds, i, b) ==
  IF i > Len(ds) THEN b ELSE BindAll(ds, i + 1, BindVar(ds[i], b.va, b.ct))

NotGapDecl(d) == ~IsGapDecl(d)

\* The methods one node marks, on its own.
NodeMarks(n) ==
  IF n.node = "SelectorExpr"
    THEN DOMAIN analyzeSelectorExpr(n, ifaceMethods, EmptyMap, varAssignments, concreteTypes)
    ELSE DOMAIN analyzeCallExpr(WithoutGaps(n), ifaceMethods, EmptyMap)

\* The bindings and the marks are those of the package without its gaps.
GapsLeaveNoTrace ==
  /\ pc \in {"bind", "walk", "report", "done"} =>
       [va |-> varAssignments, ct |-> concreteTypes]
         = BindAll(SelectSeq(decls, NotGapDecl), 1, [va |-> EmptyMap, ct |-> EmptyMap])
  /\ pc \in {"walk", "report", "done"} =>
       usedMethods = MarkAll(EmptyMap, UNION {NodeMarks(n) : n \in {k \in walked : ~IsGapNode(k)}})

\* The step that visits a gap changes neither the used set nor the bindings
\* and leaves the pass where it is.
GapIsSkipped ==
  /\ (\E n \in walked' \ walked : IsGapNode(n))
       => /\ usedMethods' = usedMethods
          /\ UNCHANGED <<varAssignments, concreteTypes>>
          /\ pc' = pc
  /\ (Len(decls') > Len(decls) /\ IsGapDecl(decls'[Len(decls')]))
       => /\ UNCHANGED <<varAssignments, concreteTypes, usedMethods>>
          /\ pc' = pc

\* C23: a node without static type information (a selector without a
\* Selections entry, a formatting-call argument of nil type, a declared or
\* used identifier without object) is skipped: visiting it changes neither
\* the used set nor the bindings, the pass goes on, and bindings and marks
\* are those the other nodes produce without it.
C23_GapNodesAreSkipped == []GapsLeaveNoTrace /\ [][GapIsSkipped]_vars

C23_Witness ==
  /\ pc = "done"
  /\ decls = << VarSpec("VAR", "c", Named("ioCloser"), "ident", NilType) >>
  /\ walked = { Sel(2, "c", "none", NilType, "Close"),
                Call(2, "selector", "fmt", <<NilType, Named("Impl")>>) }
  /\ "StringerString" \in DOMAIN ifaceMethods
  /\ DOMAIN usedMethods = {"StringerString", "LabelString"}
  /\ Len(diagnostics) = Cardinality(DOMAIN ifaceMethods) - 2

\* No key of the used set is removed and no true value is reset.
UsedGrows ==
  /\ DOMAIN usedMethods \subseteq DOMAIN usedMethods'
  /\ \A m \in DOMAIN usedMethods : usedMethods[m] => usedMethods'[m]

\* C24: the used set grows monotonically: a method that is true in the used
\* set after some node is true after every later node and in the set
\* analyze() returns; no step removes a key or resets a value to false.
C24_UsedSetGrowsMonotonically == [][UsedGrows]_vars

C24_Witness ==
  /\ pc = "done"
  /\ walked = { Sel(2, "c", "MethodVal", Named("ioCloser"), "Close"),
                Call(2, "selector", "fmt", <<NilType, Named("Impl")>>) }
  /\ DOMAIN usedMethods = {"WriterClose", "StringerString", "LabelString"}
  /\ \A m \in DOMAIN usedMethods : usedMethods[m]

\* collectInterfaceMethods of the parallel collector has returned
Collected == pc = "analyze"

\* C25: whatever the interleaving of the goroutines, the registry the
\* parallel collector returns is the registry the sequential collector
\* builds from the same files, and no key of the shared map is stored by two
\* workers.
C25_ParallelCollectEqualsSequential ==
  /\ Collected => ifaceMethods = collectInterfaceMethodsSequential(passFiles)
  /\ \A m \in DOMAIN storedBy : Cardinality(storedBy[m]) <= 1

C25_Witness ==
  /\ Collected
  /\ passFiles = <<1, 2, 7>>
  /\ Len(workers) = 3
  /\ storedBy["WriterWrite"] = {1}
  /\ storedBy["ProcProcess"] = {2}
  /\ storedBy["ThirdThirdMethod"] = {3}
  /\ Cardinality(DOMAIN ifaceMethods) = 13

\* Every file has its goroutine and every goroutine has returned.
AllWorkersDone ==
  /\ Len(workers) = Len(passFiles)
  /\ \A w \in 1..Len(workers) :
       workers[w].done /\ workers[w].pos > Len(DeclsOf(workers[w].file))

\* Once the copy into the result has started, every worker has finished,
\* and the returned registry holds every entry a worker stored.
MergeAfterWorkers ==
  /\ pc \in {"merge", "analyze"} => AllWorkersDone
  /\ Collected =>
       \A m \in DOMAIN storedBy : m \in DOMAIN ifaceMethods /\ ifaceMethods[m] = syncMap[m]

\* No store into the shared map once the copy into the result has started.
NoStoreAfterMerge == pc \in {"merge", "analyze"} => syncMap' = syncMap /\ storedBy' = storedBy

\* C26: the merge of the shared map into the registry starts only after
\* every worker has finished, no worker stores an entry after the merge has
\* started, and the returned registry contains every entry stored by any
\* worker.
C26_MergeIsSynchronized == []MergeAfterWorkers /\ [][NoStoreAfterMerge]_vars

C26_Witness ==
  /\ pc = "merge"
  /\ Len(passFiles) = 3
  /\ AllWorkersDone
  /\ wg = 0
  /\ Cardinality(DOMAIN syncMap) >= 3
  /\ DOMAIN storedBy = DOMAIN syncMap
  /\ Cardinality(UNION {storedBy[m] : m \in DOMAIN storedBy}) = 3

\* The places of the index that hold method m
PlacesOf(m) ==
  UNION { {<<nm, k>> : k \in {j \in 1..Len(methodIndex[nm]) : methodIndex[nm][j] = m}} :
          nm \in DOMAIN methodIndex }

\* Every handle of the registry is in the bucket of its name, once, and in
\* no other; every handle of a bucket is a key of the registry.
IndexMatchesRegistry ==
  pc \in {"walk", "report", "done"} =>
    /\ \A m \in DOMAIN ifaceMethods :
         /\ Cardinality(PlacesOf(m)) = 1
         /\ \A p \in PlacesOf(m) : p[1] = Func[m].name
    /\ \A nm \in DOMAIN methodIndex :
         \A k \in 1..Len(methodIndex[nm]) : methodIndex[nm][k] \in DOMAIN ifaceMethods

\* The traversal leaves the index alone.
IndexUnchangedInTraversal == pc \in {"walk", "report"} => methodIndex' = methodIndex

\* C27: after newMethodAnalyzer built the name index, every method handle
\* of the registry appears in exactly one bucket, that of its own name,
\* exactly once, every handle in a bucket is a key of the registry, and the
\* traversal does not modify the index.
C27_NameIndexPartitionsRegistry ==
  []IndexMatchesRegistry /\ [][IndexUnchangedInTraversal]_vars

C27_Witness ==
  /\ pc = "done"
  /\ passFiles = <<4>>
  /\ DOMAIN methodIndex = {"Process"}
  /\ Len(methodIndex["Process"]) = 4
  /\ methodIndex["Process"][1] = "AnyHandlerProcess"
  /\ walked # {}

\* C29: looking candidates up in the name index is a pure optimisation:
\* for every registry and every sequence of method selections and formatting
\* calls, the analyzer with the index ends every step with the same used
\* set as the analyzer that scans the whole registry.
C29_IndexLookupEqualsRegistryScan == usedMethods = usedScan

C29_Witness ==
  /\ pc = "done"
  /\ passFiles = <<4>>
  /\ Len(methodIndex["Process"]) = 4
  /\ Cardinality(DOMAIN usedScan) >= 2
  /\ Cardinality(DOMAIN usedScan) < 4
  /\ usedMethods = usedScan

\* C28: every key of the used set is a key of the registry and every value
\* stored in it is true, so its size is the number of registered methods
\* that are used, and once the report is out the number of diagnostics plus
\* the size of the used set is the size of the registry.
C28_UsedSetCountsUsedMethods ==
  /\ \A m \in DOMAIN usedMethods : m \in DOMAIN ifaceMethods /\ usedMethods[m] = TRUE
  /\ Cardinality(DOMAIN usedMethods)
       = Cardinality({m \in DOMAIN ifaceMethods : IsTrue(usedMethods, m)})
  /\ pc = "done" =>
       Len(diagnostics) + Cardinality(DOMAIN usedMethods) = Cardinality(DOMAIN ifaceMethods)

C28_Witness ==
  /\ pc = "done"
  /\ Cardinality(DOMAIN usedMethods) >= 2
  /\ Len(diagnostics) >= 2
  /\ \E n \in walked : IsMethodSelection(n)
  /\ \E n \in walked : IsFormattingCall(n)

\* The positions of the declarations `var x I = y` that record an alias
\* binding for the name x
AliasPositions(x) ==
  {i \in 1..Len(decls) :
     /\ decls[i].tok = "VAR" /\ decls[i].names = 1 /\ decls[i].values = 1
     /\ decls[i].lhs = x
     /\ decls[i].lhsType # NilType /\ IsInterfaceType(decls[i].lhsType)
     /\ decls[i].rhs = "ident"
     /\ decls[i].rhsType # NilType /\ getTypeName(decls[i].rhsType) # ""}

\* The positions of the declarations `var x I = &T{}` that record a
\* concrete-type binding for the name x
ConcretePositions(x) ==
  {i \in 1..Len(decls) :
     /\ decls[i].tok = "VAR" /\ decls[i].names = 1 /\ decls[i].values = 1
     /\ decls[i].lhs = x
     /\ decls[i].lhsType # NilType /\ IsInterfaceType(decls[i].lhsType)
     /\ decls[i].rhs = "addr"
     /\ decls[i].rhsType # NilType /\ decls[i].rhsType.k = "ptr"}

Last(S) == CHOOSE i \in S : \A j \in S : j <= i

DeclaredNames == {decls[i].lhs : i \in 1..Len(decls)}

\* During the traversal the bindings are those of all the declarations of
\* the package, by name: the alias binding of x is the source type of the
\* last alias declaration of x, the concrete-type bindings of x are those of
\* all its concrete-type declarations, in the order of the visit.
BindingsByName ==
  pc \in {"walk", "report", "done"} =>
    /\ DOMAIN varAssignments = {x \in DeclaredNames : AliasPositions(x) # {}}
    /\ \A x \in DOMAIN varAssignments :
         varAssignments[x] = getTypeName(decls[Last(AliasPositions(x))].rhsType)
    /\ DOMAIN concreteTypes = {x \in DeclaredNames : ConcretePositions(x) # {}}
    /\ \A x \in DOMAIN concreteTypes :
         /\ Len(concreteTypes[x]) = Cardinality(ConcretePositions(x))
         /\ \A i \in ConcretePositions(x) :
              concreteTypes[x][Cardinality({j \in ConcretePositions(x) : j <= i})]
                = decls[i].rhsType.n

\* A selection on the identifier x marks what the bindings of the name x
\* give, whatever the file of the selection.
SelectionConsultsName ==
  \A n \in BindSelectors :
    (pc = "walk" /\ walked' = walked \cup {n} /\ n \notin walked /\ IsMethodSelection(n)
       /\ IsInterfaceType(n.recv)) =>
      /\ UNCHANGED <<varAssignments, concreteTypes, decls>>
      /\ AliasMarks(ifaceMethods, varAssignments, n.x, CalledMethod(n))
           \subseteq DOMAIN usedMethods'
      /\ ConcreteMarks(ifaceMethods, concreteTypes, n.x, CalledMethod(n))
           \subseteq DOMAIN usedMethods'

\* C30: the bindings are collected in a complete pre-pass and keyed by the
\* identifier's name only: a selection on x consults the bindings recorded
\* for the name x by any var declaration of the package; of the alias
\* declarations `var x I = y` only the source type of the last visited one
\* is kept, while the concrete-type bindings are all kept.
C30_BindingsByNameFromPrePass == []BindingsByName /\ [][SelectionConsultsName]_vars

C30_Witness ==
  /\ pc = "done"
  /\ decls = << VarSpec("VAR", "b", Named("Handler"), "ident", Named("Proc")),
                VarSpec("VAR", "b", Named("Handler"), "ident", Named("Handler")) >>
  /\ walked = {Sel(2, "b", "MethodVal", Named("Handler"), "Process")}
  /\ varAssignments = [x \in {"b"} |-> "Handler"]
  /\ IsTrue(usedMethods, "HandlerProcess")
  /\ ~IsTrue(usedMethods, "ProcProcess")

====
